---- MODULE Spec2Model ----
(***************************************************************************)
(* Beam search (nmt.py, gen_sample with stochastic=False) and the worker   *)
(* pool of translate.py (Translator), as state machines.                   *)
(*                                                                         *)
(* Numbers.  A probability is an integer number of units of 1/Denom; the   *)
(* models only emit the probabilities 0 and 2^-j, so that -log2 of them is *)
(* an integer (costs are in units of ln 2) or +inf.  A mean over the       *)
(* num_models models is kept as the sum of the units, i.e. in units of     *)
(* 1/(Denom * num_models).                                                 *)
(***************************************************************************)
EXTENDS Integers, Sequences, FiniteSets, TLC

\* ---------------------------------------------------------------- bounds
MaxK == 3          \* beam widths 1..MaxK
MaxLen == 2        \* maxlen in 1..MaxLen
MaxModels == 2     \* ensembles of 1..MaxModels models
MaxVoc == 4        \* target vocabularies of 2..MaxVoc tokens (0 = EOS, 1 = UNK)
MaxCands == 9      \* k * vocabulary size is at most MaxCands
PBits == 2         \* probabilities are multiples of 2^-PBits
MaxWorkers == 2    \* worker processes 1..MaxWorkers
MaxSegs == 3       \* segments per translate call 0..MaxSegs
MaxOther == 2      \* jobs of another request on the input queue 1..MaxOther
MaxFactors == 2    \* options['factors'] in 1..MaxFactors
MaxAlpha == 2      \* normalization_alpha in 0..MaxAlpha
MaxExtra == 1      \* auxiliary sources (extra_xs) 0..MaxExtra

Denom == 2 ^ PBits
\* numpy.inf: above every finite cost ( -numpy.log(0) )
Inf == 1000
\* -numpy.inf, the value line 1183 writes over the probability of UNK
NegInf == 0 - Inf
\* nan ( numpy.log(-numpy.inf) ): numpy's partition and sort put it after
\* every number, inf included
NaN == 2 * Inf

VARIABLES
    \* ---- gen_sample: arguments
    k, maxlen, voc_size, f_next, return_alignment, stochastic,
    xs, init_decoder, suppress_unk,
    \* ---- gen_sample: locals
    pc, ii, live_k, dead_k, inps,
    hyp_samples, hyp_scores, word_probs, hyp_alignment,
    next_w, next_state,
    sample, sample_score, sample_word_probs, alignments,
    cand_flat, probs_flat, ranks_flat, new_hyp_samples, new_hyp_scores,
    \* ---- numpy's rule for equal costs in argpartition ("any": not fixed)
    tie_rule,
    \* ---- a second call of gen_sample with the same arguments: the number of
    \* the call and what the first call returned
    run, first_sample, first_score, first_word_probs

beam_vars == <<k, maxlen, voc_size, f_next, return_alignment, stochastic,
               xs, init_decoder, suppress_unk, inps, pc, ii, live_k, dead_k,
               hyp_samples, hyp_scores, word_probs, hyp_alignment, next_w, next_state,
               sample, sample_score, sample_word_probs, alignments,
               cand_flat, probs_flat, ranks_flat, new_hyp_samples, new_hyp_scores,
               tie_rule, run, first_sample, first_score, first_word_probs>>

VARIABLES
    \* ---- Translator: configuration and input of the translate call
    num_processes, options, translation_settings, source_segments,
    \* ---- one job's output item (_translate) and the text written for it
    output_item, output_file,
    \* ---- Translator: queues, worker processes, result buffer
    input_queue, output_queue, processes, retrieved_translations,
    \* ---- Translator.translate in the parent process
    cpc, sidx, n_samples, request_id, translations

pool_vars == <<num_processes, options, translation_settings, output_item, output_file,
               source_segments, input_queue, output_queue, processes,
               retrieved_translations, cpc, sidx, n_samples, request_id, translations>>

vars == <<beam_vars, pool_vars>>

\* ------------------------------------------------------------ arithmetic
\* float addition of costs: nan + x = nan, inf + x = inf
AddCost(a, b) ==
    IF a >= NaN \/ b >= NaN THEN NaN
    ELSE IF a >= Inf \/ b >= Inf THEN Inf
    ELSE a + b

\* -numpy.log(p) for p = u / Denom, in units of ln 2
RECURSIVE NegLog(_)
NegLog(u) ==
    IF u < 0 THEN NaN
    ELSE IF u = 0 THEN Inf
    ELSE IF u >= Denom THEN 0
    ELSE 1 + NegLog(2 * u)

RECURSIVE SumTo(_, _)
\* sum of f[1] .. f[n]
SumTo(f, n) == IF n = 0 THEN 0 ELSE f[n] + SumTo(f, n - 1)

RECURSIVE SumCost(_, _)
\* float sum of the costs f[1] .. f[n]
SumCost(f, n) == IF n = 0 THEN 0 ELSE AddCost(f[n], SumCost(f, n - 1))

\* ---------------------------------------------------------------- models
\* The sequence models (f_init, f_next) are inputs: each is one of a few
\* deterministic behaviours.  A model's recurrent state is the pair of the
\* model's position in the ensemble and the tokens it has been fed.
Behaviours == {"a_eos", "ab_eos", "no_eos", "skew"}
\* "late" puts its likeliest first token last in the vocabulary
ScenarioBehaviours == {"a_eos", "ab_eos", "late"}

TokA(V) == IF V > 2 THEN 2 ELSE 1
TokB(V) == V - 1

\* distributions over the tokens 0..V-1, in units of 1/Denom
Point(V, a) == [t \in 0..(V - 1) |-> IF t = a THEN Denom ELSE 0]
Half(V, a, b) ==
    [t \in 0..(V - 1) |-> (IF t = a THEN Denom \div 2 ELSE 0)
                          + (IF t = b THEN Denom \div 2 ELSE 0)]
Mix(V, a, b, c) ==
    [t \in 0..(V - 1) |-> (IF t = a THEN Denom \div 2 ELSE 0)
                          + (IF t = b THEN Denom \div 4 ELSE 0)
                          + (IF t = c THEN Denom \div 4 ELSE 0)]

\* ret[0] of f_next: the next-token distribution of behaviour b for previous
\* token w and state s
ModelProbs(b, V, w, s) ==
    CASE b = "a_eos"  -> IF w = -1 THEN Point(V, TokA(V)) ELSE Point(V, 0)
      [] b = "ab_eos" -> IF w = -1 THEN Half(V, TokA(V), TokB(V)) ELSE Point(V, 0)
      [] b = "no_eos" -> Half(V, 1, TokB(V))
      [] b = "skew"   -> IF w = -1 THEN Mix(V, 0, TokB(V), 1)
                         ELSE IF Len(s.h) = 1 THEN Half(V, 0, TokB(V))
                         ELSE Mix(V, 0, 1, TokB(V))
      [] b = "late"   -> IF w = -1 THEN Mix(V, TokB(V), 0, 1) ELSE Point(V, 0)

\* ret[2] of f_next: the new state
ModelState(s, w) == [m |-> s.m, h |-> Append(s.h, w)]

\* ret[3] of f_next: the attention weight on the first source position, in
\* units of 1/Denom
ModelAlpha(b, s) ==
    CASE b = "a_eos"  -> Denom
      [] b = "ab_eos" -> Denom \div 2
      [] b = "no_eos" -> IF Len(s.h) = 0 THEN Denom ELSE 0
      [] b = "skew"   -> IF Len(s.h) = 0 THEN Denom \div 4 ELSE Denom \div 2
      [] b = "late"   -> Denom \div 2

\* ret[3 + inputnum] of f_next for an auxiliary source: the attention weight
\* on the first position of that source
ModelAuxAlpha(b, s) == Denom - ModelAlpha(b, s)

\* ret[0] of f_init (tiled to live_k = 1)
InitState(i) == [m |-> i, h |-> <<>>]

\* lines 1087-1090: xs = [x] + extra_xs, the sources by their number (0 is
\* the main source)
Inputs(n) == [s \in 1..(n + 1) |-> s - 1]
SingleSource == Inputs(0)

\* lines 1150-1151: ctx[inputnum][i], the context f_init[i] returned for a
\* source
Ctx(s, i) == [source |-> xs[s], model |-> i]

\* ------------------------------------------------------------ gen_sample
NumModels == Len(f_next)

\* mutant: the log-probabilities are added to the cost instead of subtracted
CandScoreMinus(score, ps) ==
    IF SumCost([i \in 1..Len(ps) |-> NegLog(ps[i])], Len(ps)) >= Inf \/ score >= Inf THEN Inf
    ELSE score - SumCost([i \in 1..Len(ps) |-> NegLog(ps[i])], Len(ps))

\* mutant: only the first model of the ensemble is scored
CandScoreFirst(score, ps) == AddCost(score, NegLog(ps[1]))

\* line 1235, one entry: hyp_scores[ti] - sum(numpy.log(next_p))[ti, wi], where
\* ps[i] is model i's probability of the token
CandScore(score, ps) ==
    AddCost(score, SumCost([i \in 1..Len(ps) |-> NegLog(ps[i])], Len(ps)))

\* mutant: with alignment reporting the word probability is that of the
\* first model
MeanProbAttended(ps) == IF return_alignment THEN ps[1] ELSE SumTo(ps, Len(ps))

\* mutant: the word probability of the first model only
MeanProbFirst(ps) == ps[1]

\* line 1236, one entry: (sum(next_p) / num_models)[ti, wi], in units of
\* 1/(Denom * num_models); -inf when a model's entry is -inf
MeanProb(ps) ==
    IF \E i \in 1..Len(ps) : ps[i] < 0 THEN NegInf ELSE SumTo(ps, Len(ps))

\* line 1245, one entry: sum(dec_alphas[0]) / num_models, in units of
\* 1/(Denom * num_models)
MeanAlignment(as) == SumTo(as, Len(as))

\* mutant: the finished hypotheses are not subtracted from the beam width
NumSelectedAll(kk, dead) == kk

\* line 1239: the number of candidates kept
NumSelected(kk, dead) == kk - dead

RECURSIVE KSubsets(_, _)
\* the subsets of S with j elements
KSubsets(S, j) ==
    IF j = 0 THEN {{}}
    ELSE IF S = {} THEN {}
    ELSE LET x == CHOOSE y \in S : TRUE
         IN  {T \cup {x} : T \in KSubsets(S \ {x}, j - 1)} \cup KSubsets(S \ {x}, j)

\* the orders in which the elements of S can be listed
Orderings(S) ==
    {f \in [1..Cardinality(S) -> S] : \A a, b \in 1..Cardinality(S) : f[a] = f[b] => a = b}

\* mutant: the n last candidates, whatever their costs
ArgPartitionLast(cand, M, n) == {[x \in 1..n |-> M - x]}

\* mutant: n times the candidate of lowest cost
ArgPartitionSame(cand, M, n) ==
    {[x \in 1..n |-> CHOOSE c \in 0..(M - 1) : \A d \in 0..(M - 1) : cand[c] <= cand[d]]}

\* mutant: any n candidates, whatever their costs
ArgPartitionAny(cand, M, n) ==
    UNION {Orderings(T) : T \in KSubsets(0..(M - 1), n)}

\* line 1239: cand_flat.argpartition(n - 1)[:n] for an array cand over 0..M-1
\* with n <= M.  numpy only promises that the n entries are n smallest ones:
\* which of several equal costs are taken, and the order of the result, are
\* left to the selection algorithm.
ArgPartition(cand, M, n) ==
    LET kth  == CHOOSE v \in {cand[c] : c \in 0..(M - 1)} :
                    /\ Cardinality({c \in 0..(M - 1) : cand[c] <= v}) >= n
                    /\ Cardinality({c \in 0..(M - 1) : cand[c] < v}) < n
        must == {c \in 0..(M - 1) : cand[c] < kth}
        tie  == {c \in 0..(M - 1) : cand[c] = kth}
    IN  UNION {Orderings(must \cup T) : T \in KSubsets(tie, n - Cardinality(must))}

\* mutant: no hypothesis is ever finished
IsFinishedNever(hyp) == FALSE

\* mutant: UNK ends a hypothesis too
IsFinishedUnk(hyp) == hyp[Len(hyp)] <= 1

\* line 1297: a hypothesis is finished when its last token is EOS
IsFinished(hyp) == hyp[Len(hyp)] = 0

\* mutant: the loop is left as soon as one hypothesis has finished
BreakFirstDead(new_live_k, dead, kk) == new_live_k < 1 \/ dead >= 1

\* mutant: the loop is never left early
BreakNever(new_live_k, dead, kk) == FALSE

\* lines 1319-1322: the two break tests after a step
Break(new_live_k, dead, kk) == new_live_k < 1 \/ dead >= kk

\* the entries of seq s at the positions (in order) where keep holds
RECURSIVE Pick(_, _, _)
Pick(s, keep, n) ==
    IF n = 0 THEN <<>>
    ELSE IF keep[n] THEN Append(Pick(s, keep, n - 1), s[n])
    ELSE Pick(s, keep, n - 1)

NoStep == <<>>

\* mutant: the new entries replace the list
AppendAllOver(list, items) == items

\* lines 1298-1303 and 1330-1335: list.append(item) for every item, in order
AppendAll(list, items) == list \o items

\* the rules numpy's selection may follow among equal costs: the candidates
\* of lower position first, or those of higher position first
TieRules == {"low", "high"}

\* candidate a comes before candidate b in the order of cost, equal costs
\* taken by the rule
Before(cand, rule, a, b) ==
    \/ cand[a] < cand[b]
    \/ cand[a] = cand[b] /\ (IF rule = "low" THEN a < b ELSE a > b)

\* mutant: the rule for equal costs changes from one call to the next
TieRuleOfRun(rule, r) == IF r = 1 THEN rule ELSE IF rule = "low" THEN "high" ELSE "low"

\* argpartition is a function of its array alone: the same rule in every call
TieRule(rule, r) == rule

\* line 1239 with a fixed rule for equal costs: the n first candidates in the
\* order Before
ArgPartitionRule(cand, M, n, rule) ==
    [x \in 1..n |->
        CHOOSE c \in 0..(M - 1) :
            Cardinality({d \in 0..(M - 1) : Before(cand, rule, d, c)}) = x - 1]

\* mutant: as many initial hypotheses as the beam is wide (as in sampling)
InitLiveKBeam(kk) == kk

\* lines 1103-1104: beam search (stochastic = False) starts with live_k = 1
InitLiveK(kk) == 1

\* lines 1094-1153: the locals of gen_sample before the loop, as a record
Locals0(kk, align, n) ==
    [live_k        |-> InitLiveK(kk),
     hyp_samples   |-> [h \in 1..InitLiveK(kk) |-> <<>>],
     word_probs    |-> [h \in 1..InitLiveK(kk) |-> <<>>],
     hyp_scores    |-> [h \in 1..InitLiveK(kk) |-> 0],
     hyp_alignment |-> IF align
                       THEN [s \in 1..Len(xs) |-> [h \in 1..InitLiveK(kk) |-> <<>>]]
                       ELSE <<>>,
     next_state    |-> [i \in 1..n |-> [h \in 1..InitLiveK(kk) |-> InitState(i)]],
     next_w        |-> [h \in 1..InitLiveK(kk) |-> -1]]

\* lines 1094-1153: the state of gen_sample's locals when the loop starts
BeamLocals ==
    /\ pc = "loop"
    /\ ii = 0
    /\ inps = NoStep
    /\ live_k = Locals0(k, return_alignment, Len(f_next)).live_k
    /\ dead_k = 0
    /\ hyp_samples = Locals0(k, return_alignment, Len(f_next)).hyp_samples
    /\ word_probs = Locals0(k, return_alignment, Len(f_next)).word_probs
    /\ hyp_scores = Locals0(k, return_alignment, Len(f_next)).hyp_scores
    /\ hyp_alignment = Locals0(k, return_alignment, Len(f_next)).hyp_alignment
    /\ next_state = Locals0(k, return_alignment, Len(f_next)).next_state
    /\ next_w = Locals0(k, return_alignment, Len(f_next)).next_w
    /\ sample = <<>>
    /\ sample_score = <<>>
    /\ sample_word_probs = <<>>
    /\ alignments = [s \in 1..Len(xs) |-> <<>>]
    /\ cand_flat = NoStep
    /\ probs_flat = NoStep
    /\ ranks_flat = NoStep
    /\ new_hyp_samples = NoStep
    /\ new_hyp_scores = NoStep

BeamInit ==
    /\ k \in 1..MaxK
    /\ maxlen \in 1..MaxLen
    /\ voc_size \in 2..MaxVoc
    /\ k * voc_size <= MaxCands
    /\ \E n \in 1..MaxModels : f_next \in [1..n -> Behaviours]
    /\ return_alignment \in BOOLEAN
    /\ stochastic = FALSE
    /\ xs = SingleSource
    /\ init_decoder = FALSE
    /\ suppress_unk = FALSE
    /\ BeamLocals
    /\ tie_rule = "any"
    /\ run = 1
    /\ first_sample = <<>>
    /\ first_score = <<>>
    /\ first_word_probs = <<>>

\* lines 1165-1168: the contexts among the arguments of f_next[i]
\* mutant: the contexts of all sources, whatever the policy
StepInpsAll(i) == [s \in 1..Len(xs) |-> Ctx(s, i)]

StepInps(i) == IF init_decoder THEN <<Ctx(1, i)>> ELSE [s \in 1..Len(xs) |-> Ctx(s, i)]

\* line 1174, ret[0] of f_next[i] for the hypothesis h of the live beam
RetProbs(i, h) == ModelProbs(f_next[i], voc_size, next_w[h], next_state[i][h])

\* lines 1182-1183: next_p[i][:, 1] = -numpy.inf
Suppress(p) == IF suppress_unk THEN [p EXCEPT ![1] = NegInf] ELSE p

\* lines 1157-1183: every model's step on the live beam
StepProbs(i, h) == Suppress(RetProbs(i, h))
\* mutant: every model is handed the state the first model returned
StepStateFirstModel(i, h) == ModelState(next_state[1][h], next_w[h])

StepState(i, h) == ModelState(next_state[i][h], next_w[h])
StepAlpha(i, h) == ModelAlpha(f_next[i], next_state[i][h])
\* line 1177: dec_alphas[inputnum][i] = ret[3 + inputnum], for hypothesis h
StepAlphas(s, i, h) ==
    IF s = 1 THEN StepAlpha(i, h) ELSE ModelAuxAlpha(f_next[i], next_state[i][h])

\* lines 505-514 and 858-861: the number of attention outputs of f_next, one
\* for the main source and, unless the policy is init-decoder, one for every
\* auxiliary source
NumAlphas == IF init_decoder THEN 1 ELSE Len(xs)

\* lines 1175-1177: ret[3 + inputnum] is read for every source: IndexError
\* when f_next has fewer attention outputs than there are sources
AlphasRaise == return_alignment /\ Len(xs) > NumAlphas

\* lines 1235-1238: the flattened candidate costs and probabilities
CandFlat ==
    [c \in 0..(live_k * voc_size - 1) |->
        CandScore(hyp_scores[(c \div voc_size) + 1],
                  [i \in 1..NumModels |-> StepProbs(i, (c \div voc_size) + 1)[c % voc_size]])]
ProbsFlat ==
    [c \in 0..(live_k * voc_size - 1) |->
        MeanProb([i \in 1..NumModels |-> StepProbs(i, (c \div voc_size) + 1)[c % voc_size]])]

\* one iteration of the loop of line 1156, for the ranks the partition returns
StepWith(ranks) ==
    LET n     == Len(ranks)
        ti(x) == (ranks[x] \div voc_size) + 1          \* line 1249 (1-based)
        wi(x) == ranks[x] % voc_size                   \* line 1250
        nhs   == [x \in 1..n |-> Append(hyp_samples[ti(x)], wi(x))]
        nwp   == [x \in 1..n |-> Append(word_probs[ti(x)], ProbsFlat[ranks[x]])]
        nsc   == [x \in 1..n |-> CandFlat[ranks[x]]]
        nst   == [x \in 1..n |-> [i \in 1..NumModels |-> StepState(i, ti(x))]]
        nal   == [s \in 1..Len(xs) |-> [x \in 1..n |->
                    IF return_alignment
                    THEN Append(hyp_alignment[s][ti(x)],
                                MeanAlignment([i \in 1..NumModels |-> StepAlphas(s, i, ti(x))]))
                    ELSE <<>>]]
        fin   == [x \in 1..n |-> IsFinished(nhs[x])]
        liv   == [x \in 1..n |-> ~IsFinished(nhs[x])]
        lst   == Pick(nst, liv, n)
        nlive == Len(Pick(nhs, liv, n))
        ndead == dead_k + Len(Pick(nhs, fin, n))
    IN  /\ cand_flat' = CandFlat
        /\ probs_flat' = ProbsFlat
        /\ ranks_flat' = ranks
        /\ new_hyp_samples' = nhs
        /\ new_hyp_scores' = nsc
        /\ sample' = AppendAll(sample, Pick(nhs, fin, n))
        /\ sample_score' = AppendAll(sample_score, Pick(nsc, fin, n))
        /\ sample_word_probs' = AppendAll(sample_word_probs, Pick(nwp, fin, n))
        /\ alignments' = IF return_alignment
                         THEN [s \in 1..Len(xs) |->
                                 AppendAll(alignments[s], Pick(nal[s], fin, n))]
                         ELSE alignments
        /\ dead_k' = ndead
        /\ hyp_samples' = Pick(nhs, liv, n)
        /\ hyp_scores' = Pick(nsc, liv, n)
        /\ word_probs' = Pick(nwp, liv, n)
        /\ hyp_alignment' = IF return_alignment
                            THEN [s \in 1..Len(xs) |-> Pick(nal[s], liv, n)]
                            ELSE hyp_alignment
        /\ inps' = [i \in 1..NumModels |-> StepInps(i)]
        /\ live_k' = nlive
        /\ ii' = ii + 1
        /\ IF Break(nlive, ndead, k)
           THEN /\ pc' = "dump"
                /\ UNCHANGED <<next_w, next_state>>
           ELSE /\ pc' = IF ii + 1 < maxlen THEN "loop" ELSE "dump"
                /\ next_w' = [x \in 1..nlive |-> hyp_samples'[x][Len(hyp_samples'[x])]]
                /\ next_state' = [i \in 1..NumModels |-> [x \in 1..nlive |-> lst[x][i]]]
        /\ UNCHANGED <<k, maxlen, voc_size, f_next, return_alignment, stochastic,
                     xs, init_decoder, suppress_unk>>
        /\ UNCHANGED <<tie_rule, run, first_sample, first_score, first_word_probs>>
        /\ UNCHANGED pool_vars

\* line 1239: kth = k - dead_k - 1 is an index of cand_flat
CanStep ==
    /\ NumSelected(k, dead_k) >= 1
    /\ NumSelected(k, dead_k) <= live_k * voc_size

\* line 1239: kth is beyond the end of cand_flat
CanRaise == NumSelected(k, dead_k) > live_k * voc_size

\* lines 1156-1325: a search step
Step ==
    /\ pc = "loop"
    /\ ~stochastic
    /\ ~AlphasRaise
    /\ CanStep
    /\ \E ranks \in ArgPartition(CandFlat, live_k * voc_size, NumSelected(k, dead_k)) :
          StepWith(ranks)

\* line 1239: argpartition raises ValueError when kth is out of bounds
StepError ==
    /\ pc = "loop"
    /\ ~stochastic
    /\ ~AlphasRaise
    /\ CanRaise
    /\ pc' = "error"
    /\ inps' = [i \in 1..NumModels |-> StepInps(i)]
    /\ UNCHANGED pool_vars
    /\ UNCHANGED <<k, maxlen, voc_size, f_next, return_alignment, stochastic,
                   xs, init_decoder, suppress_unk, ii, live_k, dead_k,
                   hyp_samples, hyp_scores, word_probs, hyp_alignment, next_w, next_state,
                   sample, sample_score, sample_word_probs, alignments,
                   cand_flat, probs_flat, ranks_flat, new_hyp_samples, new_hyp_scores,
                   tie_rule, run, first_sample, first_score, first_word_probs>>

\* lines 1170-1177: f_next of the first model has been called and line 1177
\* reads an attention output that f_next does not have: IndexError
AlphasIndexError ==
    /\ pc = "loop"
    /\ ~stochastic
    /\ AlphasRaise
    /\ pc' = "index_error"
    /\ inps' = <<StepInps(1)>>
    /\ UNCHANGED pool_vars
    /\ UNCHANGED <<k, maxlen, voc_size, f_next, return_alignment, stochastic,
                   xs, init_decoder, suppress_unk, ii, live_k, dead_k,
                   hyp_samples, hyp_scores, word_probs, hyp_alignment, next_w, next_state,
                   sample, sample_score, sample_word_probs, alignments,
                   cand_flat, probs_flat, ranks_flat, new_hyp_samples, new_hyp_scores,
                   tie_rule, run, first_sample, first_score, first_word_probs>>

\* ---- stochastic sampling (stochastic=True, argmax=False)
\* mutant: no trajectory goes on after a step
StillLiveNever(hyp) == FALSE

\* line 1214: hyp_sample[-1] > 0
StillLive(hyp) == hyp[Len(hyp)] > 0

\* line 1193, next_w_tmp of the last model: for every trajectory a token
\* drawn from the distribution the last model gave for that trajectory
Draws ==
    {nws \in [1..live_k -> 0..(voc_size - 1)] :
        \A idx \in 1..live_k : RetProbs(NumModels, idx)[nws[idx]] > 0}

\* lines 1156-1183 and 1191-1233: a sampling step.  Costs and word
\* probabilities are those of the last model (lines 1194-1195)
SampleStep ==
    /\ pc = "loop"
    /\ stochastic
    /\ \E nws \in Draws :
          LET n   == live_k
              nhs == [idx \in 1..n |-> Append(hyp_samples[idx], nws[idx])]
              nsc == [ti \in 1..n |->
                        AddCost(hyp_scores[ti], NegLog(StepProbs(NumModels, ti)[nws[ti]]))]
              nwp == [ti \in 1..n |->
                        Append(word_probs[ti], StepProbs(NumModels, ti)[nws[ti]])]
              nst == [ti \in 1..n |-> [i \in 1..NumModels |-> StepState(i, ti)]]
              liv == [x \in 1..n |-> StillLive(nhs[x])]
              fin == [x \in 1..n |-> ~StillLive(nhs[x])]
              lst == Pick(nst, liv, n)
              nlive == Len(Pick(nhs, liv, n))
          IN  /\ sample' = sample \o Pick(nhs, fin, n)
              /\ sample_score' = sample_score \o Pick(nsc, fin, n)
              /\ sample_word_probs' = sample_word_probs \o Pick(nwp, fin, n)
              /\ hyp_samples' = Pick(nhs, liv, n)
              /\ hyp_scores' = Pick(nsc, liv, n)
              /\ word_probs' = Pick(nwp, liv, n)
              /\ live_k' = nlive
              /\ ii' = ii + 1
              /\ inps' = [i \in 1..NumModels |-> StepInps(i)]
              /\ IF nlive < 1
                 THEN /\ pc' = "dump"
                      /\ UNCHANGED <<next_w, next_state>>
                 ELSE /\ pc' = IF ii + 1 < maxlen THEN "loop" ELSE "dump"
                      /\ next_w' = [x \in 1..nlive |-> hyp_samples'[x][Len(hyp_samples'[x])]]
                      /\ next_state' = [i \in 1..NumModels |-> [x \in 1..nlive |-> lst[x][i]]]
    /\ UNCHANGED <<k, maxlen, voc_size, f_next, return_alignment, stochastic,
                   xs, init_decoder, suppress_unk, dead_k,
                   hyp_alignment, alignments, cand_flat, probs_flat, ranks_flat,
                   new_hyp_samples, new_hyp_scores, tie_rule, run, first_sample,
                   first_score, first_word_probs>>
    /\ UNCHANGED pool_vars

\* mutant: the last remaining hypothesis is dropped
RemainingButLast(seq, n) == [idx \in 1..(n - 1) |-> seq[idx]]

\* lines 1329-1335: the entries seq[idx] for idx in xrange(n)
Remaining(seq, n) == [idx \in 1..n |-> seq[idx]]

\* lines 1327-1342: dump every remaining hypothesis and return
Dump ==
    /\ pc = "dump"
    /\ pc' = "done"
    /\ sample' = AppendAll(sample, Remaining(hyp_samples, live_k))
    /\ sample_score' = AppendAll(sample_score, Remaining(hyp_scores, live_k))
    /\ sample_word_probs' = AppendAll(sample_word_probs, Remaining(word_probs, live_k))
    /\ alignments' = [s \in 1..Len(xs) |->
                        IF return_alignment
                        THEN AppendAll(alignments[s], Remaining(hyp_alignment[s], live_k))
                        ELSE [x \in 1..Len(sample') |-> "None"]]
    /\ UNCHANGED pool_vars
    /\ UNCHANGED <<k, maxlen, voc_size, f_next, return_alignment, stochastic,
                   xs, init_decoder, suppress_unk, inps, ii, live_k, dead_k,
                   hyp_samples, hyp_scores, word_probs, hyp_alignment, next_w, next_state,
                   cand_flat, probs_flat, ranks_flat, new_hyp_samples, new_hyp_scores,
                   tie_rule, run, first_sample, first_score, first_word_probs>>


\* ------------------------------------------------------------ Translator
\* The words of the input and their ids in the source dictionary; a word that
\* is not in the dictionary gets 1 (UNK), line 540
WordId(w) == CASE w = "a" -> 2 [] w = "b" -> 3 [] OTHER -> 1

\* the segments a translate call may be given
Segments == {<<"a">>, <<"b", "zz">>}

\* the model options of a system with one source, one factor per word and
\* nothing else to read (self._options[0])
PlainOptions == [factors |-> 1, multisource_type |-> "None", extra_sources |-> 0]

\* line 540, w.split('|'): the factors of a word of the input
SplitFactors(w) ==
    CASE w = "a|x"   -> <<"a", "x">>
      [] w = "b|y"   -> <<"b", "y">>
      [] w = "a|x|y" -> <<"a", "x", "y">>
      [] OTHER       -> <<w>>

\* lines 194-195 with nmt.py line 1562: the model was trained with one source
\* dictionary per factor, so self._word_dicts[0] has options['factors'] entries
NumWordDicts == options.factors

\* line 540: the j-th factor is looked up in the j-th dictionary
EncodeWord(w) == [j \in 1..Len(SplitFactors(w)) |-> WordId(SplitFactors(w)[j])]

\* line 548: the EOS vector, one zero per configured factor
EosVector == [j \in 1..options.factors |-> 0]

\* lines 539-549: the factored ids of a segment's words, then the EOS vector
EncodeSegment(words) == [t \in 1..Len(words) |-> EncodeWord(words[t])] \o <<EosVector>>

\* the one request id of the translate call (translation_settings.request_id)
TheRequest == "req"

\* the request id of another translate call on the same Translator, and the
\* segment with sequence index i (from 0) of that call
OtherRequest == "other"
OtherSegment(i) == IF i = 0 THEN <<"zz">> ELSE <<"zz", "a">>

\* lines 552-562: the QueueItem of segment number i (from 0)
QueueItem(i, words, rid) == [idx |-> i, request_id |-> rid, seq |-> EncodeSegment(words)]

\* lines 390-422: the output item a worker computes for a job.  The search
\* itself is gen_sample above; here its result is a function of the job's
\* token sequence alone: the main factor of each source token and a score.
TranslateItem(job) ==
    [samples |-> [t \in 1..Len(job.seq) |-> job.seq[t][1]], score |-> Len(job.seq)]

\* mutant: the result is kept under the number of results that came before it
RetrievedKeyArrival(resp_idx, count) == count

\* line 592, the key: the result is kept under its own sequence index
RetrievedKey(resp_idx, count) == resp_idx

\* mutant: the whole buffer is emptied
EvictAll(buffer, rid) == <<>>

\* line 598: del self._retrieved_translations[request_id]
Evict(buffer, rid) == [r \in (DOMAIN buffer) \ {rid} |-> buffer[r]]

\* lines 654-683: the Translation built from the i-th yielded item (i from 0)
Translation(i, words, item) ==
    [sentence_id |-> i, source_words |-> words,
     target_words |-> item.samples, score |-> item.score]

\* the settings of a translate call that asks for the best translation only
PlainSettings == [normalization_alpha |-> 0, n_best |-> FALSE, get_word_probs |-> FALSE]

\* no job has been translated
NoItem == [none |-> TRUE]

\* multiprocessing.Process: is_alive() and exitcode
IsAlive(p) == p.st # "exited"
Crashed(p) == p.st = "exited" /\ p.exitcode # 0

\* mutant: the workers are left running
TerminateNone(ps) == ps

\* line 588: Process.terminate() on every worker
TerminateAll(ps) ==
    [w \in DOMAIN ps |->
        IF IsAlive(ps[w]) THEN [st |-> "exited", exitcode |-> -15, job |-> ps[w].job]
        ELSE ps[w]]

NoJob == [none |-> TRUE]

\* the None that shutdown puts on the input queue
Poison == [poison |-> TRUE]

\* mutant: one None fewer than there are workers
PutPoisonButOne(queue, n) == queue \o [w \in 1..(n - 1) |-> Poison]

\* mutant: the Nones overtake the jobs that wait on the queue
PutPoisonFirst(queue, n) == [w \in 1..n |-> Poison] \o queue

\* lines 278-279: one put(None) for each of the n worker processes
PutPoison(queue, n) == queue \o [w \in 1..n |-> Poison]

\* state after Translator.__init__ (lines 143-166): the queues are empty and
\* the worker processes are started and loading their models
PoolInit ==
    /\ num_processes \in 1..MaxWorkers
    /\ options = PlainOptions
    /\ \E n \in 0..MaxSegs : source_segments \in [1..n -> Segments]
    /\ input_queue = <<>>
    /\ output_queue = <<>>
    /\ processes = [w \in 1..num_processes |->
                        [st |-> "loading", exitcode |-> "None", job |-> NoJob]]
    /\ retrieved_translations = <<>>
    /\ translation_settings = PlainSettings
    /\ output_item = NoItem
    /\ output_file = <<>>
    /\ cpc = "send"
    /\ sidx = -1
    /\ n_samples = 0
    /\ request_id = TheRequest
    /\ translations = <<>>

\* values of the Translator's variables while only gen_sample is looked at
PoolIdle ==
    /\ num_processes = 0
    /\ options = PlainOptions
    /\ source_segments = <<>>
    /\ input_queue = <<>>
    /\ output_queue = <<>>
    /\ processes = <<>>
    /\ retrieved_translations = <<>>
    /\ translation_settings = PlainSettings
    /\ output_item = NoItem
    /\ output_file = <<>>
    /\ cpc = "idle"
    /\ sidx = -1
    /\ n_samples = 0
    /\ request_id = TheRequest
    /\ translations = <<>>

\* values of gen_sample's variables while only the Translator is looked at
BeamIdle ==
    /\ k = 1
    /\ maxlen = 1
    /\ voc_size = 2
    /\ f_next = <<"a_eos">>
    /\ return_alignment = FALSE
    /\ stochastic = FALSE
    /\ xs = SingleSource
    /\ init_decoder = FALSE
    /\ suppress_unk = FALSE
    /\ pc = "idle"
    /\ ii = 0
    /\ inps = NoStep
    /\ live_k = 1
    /\ dead_k = 0
    /\ hyp_samples = << <<>> >>
    /\ word_probs = << <<>> >>
    /\ hyp_scores = <<0>>
    /\ hyp_alignment = <<>>
    /\ next_state = <<<<InitState(1)>>>>
    /\ next_w = <<-1>>
    /\ sample = <<>>
    /\ sample_score = <<>>
    /\ sample_word_probs = <<>>
    /\ alignments = [s \in 1..Len(xs) |-> <<>>]
    /\ cand_flat = NoStep
    /\ probs_flat = NoStep
    /\ ranks_flat = NoStep
    /\ new_hyp_samples = NoStep
    /\ new_hyp_scores = NoStep
    /\ tie_rule = "any"
    /\ run = 1
    /\ first_sample = <<>>
    /\ first_score = <<>>
    /\ first_word_probs = <<>>

\* ---- worker process (lines 371-388)
\* mutant: the options are never found incompatible
LoadFailsNever(o) == FALSE

\* line 316: the model is multi-source and has no auxiliary source
LoadFails(o) == o.multisource_type # "None" /\ o.extra_sources = 0

\* lines 316-318: _load_theano, run by the worker, ends the worker process
\* with sys.exit(1)
WorkerLoadExit(w) ==
    /\ processes[w].st = "loading"
    /\ LoadFails(options)
    /\ processes' = [processes EXCEPT ![w] = [st |-> "exited", exitcode |-> 1,
                                              job |-> NoJob]]
    /\ UNCHANGED <<num_processes, options, translation_settings, output_item, output_file,
                   source_segments, input_queue, output_queue,
                   retrieved_translations, cpc, sidx, n_samples, request_id, translations>>
    /\ UNCHANGED beam_vars

\* line 377: the models are loaded, the worker enters its loop
WorkerLoaded(w) ==
    /\ processes[w].st = "loading"
    /\ ~LoadFails(options)
    /\ processes' = [processes EXCEPT ![w].st = "waiting"]
    /\ UNCHANGED <<num_processes, options, translation_settings, output_item, output_file,
                   source_segments, input_queue, output_queue,
                   retrieved_translations, cpc, sidx, n_samples, request_id, translations>>
    /\ UNCHANGED beam_vars

\* mutant: the item is read and left on the queue
DequeuePeek(queue) == queue

\* line 381, Queue.get: the item is taken off the queue
Dequeue(queue) == Tail(queue)

\* lines 381-385: the worker takes the next item of the input queue; None
\* ends its loop and the process exits with status 0
WorkerGet(w) ==
    /\ processes[w].st = "waiting"
    /\ input_queue # <<>>
    /\ input_queue' = Dequeue(input_queue)
    /\ processes' =
          IF Head(input_queue) = Poison
          THEN [processes EXCEPT ![w] = [st |-> "exited", exitcode |-> 0, job |-> NoJob]]
          ELSE [processes EXCEPT ![w] = [st |-> "busy", exitcode |-> "None",
                                         job |-> Head(input_queue)]]
    /\ UNCHANGED <<num_processes, options, translation_settings, output_item, output_file,
                   source_segments, output_queue,
                   retrieved_translations, cpc, sidx, n_samples, request_id, translations>>
    /\ UNCHANGED beam_vars

\* lines 386-387: the job is translated and its result published
WorkerPut(w) ==
    /\ processes[w].st = "busy"
    /\ output_queue' = Append(output_queue,
                              <<processes[w].job.request_id, processes[w].job.idx,
                                TranslateItem(processes[w].job)>>)
    /\ processes' = [processes EXCEPT ![w] = [st |-> "waiting", exitcode |-> "None",
                                              job |-> NoJob]]
    /\ UNCHANGED <<num_processes, options, translation_settings, output_item, output_file,
                   source_segments, input_queue,
                   retrieved_translations, cpc, sidx, n_samples, request_id, translations>>
    /\ UNCHANGED beam_vars

\* line 386: _translate raises (or the process is killed) in the middle of a
\* job: the process exits with status 1 and the job's result is never put
WorkerCrash(w) ==
    /\ processes[w].st = "busy"
    /\ processes' = [processes EXCEPT ![w] = [st |-> "exited", exitcode |-> 1,
                                              job |-> processes[w].job]]
    /\ UNCHANGED <<num_processes, options, translation_settings, output_item, output_file,
                   source_segments, input_queue, output_queue,
                   retrieved_translations, cpc, sidx, n_samples, request_id, translations>>
    /\ UNCHANGED beam_vars

\* ---- parent process: translate (lines 609-684)
\* lines 539-541: the positions of the words of a segment whose number of
\* factors is not options['factors']
BadWords(words) ==
    {t \in 1..Len(words) : Len(SplitFactors(words[t])) # options.factors}

\* the first of them: the loop of line 539 stops there
FirstBad(words) == CHOOSE t \in BadWords(words) : \A u \in BadWords(words) : t <= u

\* lines 523-563: one pass of the loop of _send_jobs_multisource puts the job
\* of the next segment on the input queue
SendJob ==
    /\ cpc = "send"
    /\ sidx + 1 < Len(source_segments)
    /\ BadWords(source_segments[sidx + 2]) = {}
    /\ sidx' = sidx + 1
    /\ input_queue' = Append(input_queue,
                             QueueItem(sidx + 1, source_segments[sidx + 2], TheRequest))
    /\ UNCHANGED <<num_processes, options, translation_settings, output_item, output_file,
                   source_segments, output_queue, processes,
                   retrieved_translations, cpc, n_samples, request_id, translations>>
    /\ UNCHANGED beam_vars

\* line 565 and line 570: _send_jobs_multisource returns sidx + 1 and
\* _retrieve_jobs starts; testing the length of the defaultdict's entry
\* creates the entry
SendDone ==
    /\ cpc = "send"
    /\ sidx + 1 = Len(source_segments)
    /\ sidx >= 0
    /\ n_samples' = sidx + 1
    /\ request_id' = TheRequest
    /\ retrieved_translations' =
          [r \in (DOMAIN retrieved_translations) \cup {TheRequest} |->
              IF r \in DOMAIN retrieved_translations THEN retrieved_translations[r]
              ELSE <<>>]
    /\ cpc' = "retrieve"
    /\ UNCHANGED <<num_processes, options, translation_settings, output_item, output_file,
                   source_segments, input_queue, output_queue, processes,
                   sidx, translations>>
    /\ UNCHANGED beam_vars

\* line 565: with no segment at all sidx was never bound and the return
\* statement raises UnboundLocalError
SendRaise ==
    /\ cpc = "send"
    /\ Len(source_segments) = 0
    /\ cpc' = "raised"
    /\ UNCHANGED <<num_processes, options, translation_settings, output_item, output_file,
                   source_segments, input_queue, output_queue, processes,
                   retrieved_translations, sidx, n_samples, request_id, translations>>
    /\ UNCHANGED beam_vars

\* lines 541-546: the next segment has a word with fewer factors than
\* options['factors']: every worker is terminated and the parent exits with
\* status 1; line 563 is not reached for this segment
SendFatal ==
    /\ cpc = "send"
    /\ sidx + 1 < Len(source_segments)
    /\ BadWords(source_segments[sidx + 2]) # {}
    /\ LET words == source_segments[sidx + 2]
       IN  Len(SplitFactors(words[FirstBad(words)])) <= NumWordDicts
    /\ sidx' = sidx + 1
    /\ processes' = TerminateAll(processes)
    /\ cpc' = "exit1"
    /\ UNCHANGED <<num_processes, options, translation_settings, output_item, output_file,
                   source_segments, input_queue, output_queue,
                   retrieved_translations, n_samples, request_id, translations>>
    /\ UNCHANGED beam_vars

\* line 540: the next segment has a word with more factors than there are
\* source dictionaries: self._word_dicts[iidx][j] raises IndexError before
\* the test of line 541 is reached; no worker is terminated
SendIndexError ==
    /\ cpc = "send"
    /\ sidx + 1 < Len(source_segments)
    /\ BadWords(source_segments[sidx + 2]) # {}
    /\ LET words == source_segments[sidx + 2]
       IN  Len(SplitFactors(words[FirstBad(words)])) > NumWordDicts
    /\ sidx' = sidx + 1
    /\ cpc' = "raised"
    /\ UNCHANGED <<num_processes, options, translation_settings, output_item, output_file,
                   source_segments, input_queue, output_queue,
                   processes, retrieved_translations, n_samples, request_id,
                   translations>>
    /\ UNCHANGED beam_vars

\* number of results kept for the request the loop of line 570 looks at
NumRetrieved == Cardinality(DOMAIN retrieved_translations[request_id])

\* lines 575 and 591-592: a result is taken from the output queue and kept
\* under its request id and sequence index; line 591 assigns the result's
\* request id to the local request_id
RetrieveGet ==
    /\ cpc = "retrieve"
    /\ NumRetrieved < n_samples
    /\ output_queue # <<>>
    /\ LET resp == Head(output_queue)
           rid  == resp[1]
           old  == IF rid \in DOMAIN retrieved_translations
                   THEN retrieved_translations[rid] ELSE <<>>
           key  == RetrievedKey(resp[2], Cardinality(DOMAIN old))
           new  == [i \in (DOMAIN old) \cup {key} |-> IF i = key THEN resp[3] ELSE old[i]]
       IN  /\ request_id' = rid
           /\ retrieved_translations' =
                 [r \in (DOMAIN retrieved_translations) \cup {rid} |->
                     IF r = rid THEN new ELSE retrieved_translations[r]]
    /\ output_queue' = Tail(output_queue)
    /\ UNCHANGED <<num_processes, options, translation_settings, output_item, output_file,
                   source_segments, input_queue, processes,
                   cpc, sidx, n_samples, translations>>
    /\ UNCHANGED beam_vars

\* lines 578-590: the output queue stayed empty for the timeout and a worker
\* is found dead with a non-zero exit code: every worker is terminated and
\* the parent exits with status 1.  (With no such worker the poll changes
\* nothing and the wait starts again.)
RetrieveTimeout ==
    /\ cpc = "retrieve"
    /\ NumRetrieved < n_samples
    /\ output_queue = <<>>
    /\ \E w \in 1..num_processes : Crashed(processes[w])
    /\ processes' = TerminateAll(processes)
    /\ cpc' = "exit1"
    /\ UNCHANGED <<num_processes, options, translation_settings, output_item, output_file,
                   source_segments, input_queue, output_queue,
                   retrieved_translations, sidx, n_samples, request_id, translations>>
    /\ UNCHANGED beam_vars

\* lines 594-598 and 626-684: the results are yielded in the order of the
\* sequence indices, each is made a Translation, the request's entry is
\* deleted and translate returns
YieldAll ==
    /\ cpc = "retrieve"
    /\ NumRetrieved >= n_samples
    /\ \A i \in 0..(n_samples - 1) : i \in DOMAIN retrieved_translations[request_id]
    /\ translations' =
          [i \in 1..n_samples |->
              Translation(i - 1, source_segments[i],
                          retrieved_translations[request_id][i - 1])]
    /\ retrieved_translations' = Evict(retrieved_translations, request_id)
    /\ cpc' = "returned"
    /\ UNCHANGED <<num_processes, options, translation_settings, output_item, output_file,
                   source_segments, input_queue, output_queue, processes,
                   sidx, n_samples, request_id>>
    /\ UNCHANGED beam_vars

\* line 595: the loop of line 570 was left although the entry of request_id
\* lacks one of the indices 0..num_samples-1: the lookup raises KeyError
YieldRaise ==
    /\ cpc = "retrieve"
    /\ NumRetrieved >= n_samples
    /\ \E i \in 0..(n_samples - 1) : i \notin DOMAIN retrieved_translations[request_id]
    /\ cpc' = "raised"
    /\ UNCHANGED <<num_processes, options, translation_settings, output_item, output_file,
                   source_segments, input_queue, output_queue, processes,
                   retrieved_translations, sidx, n_samples, request_id, translations>>
    /\ UNCHANGED beam_vars

\* lines 273-279 (called by main, line 811): one None per worker
Shutdown ==
    /\ cpc = "returned"
    /\ input_queue' = PutPoison(input_queue, num_processes)
    /\ cpc' = "shutdown"
    /\ UNCHANGED <<num_processes, options, translation_settings, output_item, output_file,
                   source_segments, output_queue, processes,
                   retrieved_translations, sidx, n_samples, request_id, translations>>
    /\ UNCHANGED beam_vars

\* the steps a worker takes when it is left to run
WorkerRun(w) == WorkerLoaded(w) \/ WorkerGet(w) \/ WorkerPut(w)

Parent == SendJob \/ SendDone \/ SendRaise \/ RetrieveGet \/ RetrieveTimeout
          \/ YieldAll \/ Shutdown

PoolNext ==
    \/ Parent
    \/ \E w \in 1..num_processes : WorkerLoaded(w)
    \/ \E w \in 1..num_processes : WorkerGet(w)
    \/ \E w \in 1..num_processes : WorkerPut(w)
    \/ \E w \in 1..num_processes : WorkerCrash(w)

PoolSpecInit == PoolInit /\ BeamIdle

PoolSpec == PoolSpecInit /\ [][PoolNext]_vars

\* The workers and the parent are operating-system processes: each goes on
\* running while it can take a step.  A worker's crash is not owed.
PoolFairSpec ==
    /\ PoolSpec
    /\ WF_vars(Parent)
    /\ \A w \in 1..MaxWorkers :
          WF_vars(w \in 1..num_processes /\ WorkerRun(w))

\* ---- two requests on one Translator
\* the state in which translate is called for TheRequest while the jobs of
\* another translate call, made for OtherRequest on the same Translator
\* (lines 523-563), are on the input queue
ReqInit ==
    /\ num_processes \in 1..MaxWorkers
    /\ options = PlainOptions
    /\ \E n \in 0..MaxSegs : source_segments \in [1..n -> Segments]
    /\ \E m \in 1..MaxOther :
          input_queue = [j \in 1..m |-> QueueItem(j - 1, OtherSegment(j - 1), OtherRequest)]
    /\ output_queue = <<>>
    /\ processes = [w \in 1..num_processes |->
                        [st |-> "loading", exitcode |-> "None", job |-> NoJob]]
    /\ retrieved_translations = <<>>
    /\ translation_settings = PlainSettings
    /\ output_item = NoItem
    /\ output_file = <<>>
    /\ cpc = "send"
    /\ sidx = -1
    /\ n_samples = 0
    /\ request_id = TheRequest
    /\ translations = <<>>
    /\ BeamIdle

ReqNext == PoolNext \/ YieldRaise

ReqSpec == ReqInit /\ [][ReqNext]_vars

ReqFairSpec ==
    /\ ReqSpec
    /\ WF_vars(Parent \/ YieldRaise)
    /\ \A w \in 1..MaxWorkers :
          WF_vars(w \in 1..num_processes /\ WorkerRun(w))

\* ---- input with factors
\* segments whose words have one, two or three factors
FactoredSegments == {<<"a">>, <<"a|x", "b|y">>, <<"a|x", "b">>, <<"b", "a|x|y">>}

\* a translate call on a system with one or two factors per word
FactorInit ==
    /\ num_processes \in 1..MaxWorkers
    /\ \E f \in 1..MaxFactors : options = [PlainOptions EXCEPT !.factors = f]
    /\ \E n \in 0..MaxSegs : source_segments \in [1..n -> FactoredSegments]
    /\ input_queue = <<>>
    /\ output_queue = <<>>
    /\ processes = [w \in 1..num_processes |->
                        [st |-> "loading", exitcode |-> "None", job |-> NoJob]]
    /\ retrieved_translations = <<>>
    /\ translation_settings = PlainSettings
    /\ output_item = NoItem
    /\ output_file = <<>>
    /\ cpc = "send"
    /\ sidx = -1
    /\ n_samples = 0
    /\ request_id = TheRequest
    /\ translations = <<>>
    /\ BeamIdle

FactorNext == PoolNext \/ SendFatal \/ SendIndexError

FactorSpec == FactorInit /\ [][FactorNext]_vars

\* ---- multi-source configuration
\* a translate call on a system whose model is or is not multi-source and has
\* or has not an auxiliary source
ConfigInit ==
    /\ num_processes \in 1..MaxWorkers
    /\ \E m \in {"None", "att-concat"} : \E e \in 0..1 :
          options = [factors |-> 1, multisource_type |-> m, extra_sources |-> e]
    /\ \E n \in 0..MaxSegs : source_segments \in [1..n -> Segments]
    /\ input_queue = <<>>
    /\ output_queue = <<>>
    /\ processes = [w \in 1..num_processes |->
                        [st |-> "loading", exitcode |-> "None", job |-> NoJob]]
    /\ retrieved_translations = <<>>
    /\ translation_settings = PlainSettings
    /\ output_item = NoItem
    /\ output_file = <<>>
    /\ cpc = "send"
    /\ sidx = -1
    /\ n_samples = 0
    /\ request_id = TheRequest
    /\ translations = <<>>
    /\ BeamIdle

ConfigNext == PoolNext \/ \E w \in 1..num_processes : WorkerLoadExit(w)

ConfigSpec == ConfigInit /\ [][ConfigNext]_vars

\* as in PoolFairSpec; the exit of line 318 is a step of the worker's own code
ConfigFairSpec ==
    /\ ConfigSpec
    /\ WF_vars(Parent)
    /\ \A w \in 1..MaxWorkers :
          WF_vars(w \in 1..num_processes /\ (WorkerRun(w) \/ WorkerLoadExit(w)))

\* ---- translate called again on a Translator after shutdown
\* lines 609-620: translate is a method of the Translator, which a client may
\* call at any time; here it is called for the same segments after shutdown
\* (lines 271-279) has put its Nones on the input queue
TranslateAgain ==
    /\ cpc = "shutdown"
    /\ cpc' = "send"
    /\ sidx' = -1
    /\ n_samples' = 0
    /\ translations' = <<>>
    /\ request_id' = TheRequest
    /\ UNCHANGED <<num_processes, options, translation_settings, output_item, output_file,
                   source_segments, input_queue, output_queue, processes,
                   retrieved_translations>>
    /\ UNCHANGED beam_vars

StopNext == ConfigNext \/ TranslateAgain

StopSpec == ConfigInit /\ [][StopNext]_vars

\* as in ConfigFairSpec; the client's second call is not owed
StopFairSpec ==
    /\ StopSpec
    /\ WF_vars(Parent)
    /\ \A w \in 1..MaxWorkers :
          WF_vars(w \in 1..num_processes /\ (WorkerRun(w) \/ WorkerLoadExit(w)))

\* ---- gen_sample called with stochastic=True, argmax=False
\* lines 1094-1153: live_k is k (line 1102) and every local has k entries
SampleInit ==
    /\ k \in 1..MaxK
    /\ maxlen \in 1..(MaxLen + 1)
    /\ voc_size \in 2..MaxVoc
    /\ \E n \in 1..MaxModels : f_next \in [1..n -> Behaviours]
    /\ return_alignment = FALSE
    /\ stochastic = TRUE
    /\ xs = SingleSource
    /\ init_decoder = FALSE
    /\ suppress_unk = FALSE
    /\ pc = "loop"
    /\ ii = 0
    /\ inps = NoStep
    /\ live_k = k
    /\ dead_k = 0
    /\ hyp_samples = [h \in 1..k |-> <<>>]
    /\ word_probs = [h \in 1..k |-> <<>>]
    /\ hyp_scores = [h \in 1..k |-> 0]
    /\ hyp_alignment = <<>>
    /\ next_state = [i \in 1..Len(f_next) |-> [h \in 1..k |-> InitState(i)]]
    /\ next_w = [h \in 1..k |-> -1]
    /\ sample = <<>>
    /\ sample_score = <<>>
    /\ sample_word_probs = <<>>
    /\ alignments = [s \in 1..Len(xs) |-> <<>>]
    /\ cand_flat = NoStep
    /\ probs_flat = NoStep
    /\ ranks_flat = NoStep
    /\ new_hyp_samples = NoStep
    /\ new_hyp_scores = NoStep
    /\ tie_rule = "any"
    /\ run = 1
    /\ first_sample = <<>>
    /\ first_score = <<>>
    /\ first_word_probs = <<>>
    /\ PoolIdle

SampleNext == SampleStep \/ Dump

SampleSpec == SampleInit /\ [][SampleNext]_vars

Init == BeamInit /\ PoolIdle

\* ---- the scenarios: vocabulary {0: EOS, 1: UNK, 2, 3} and one model
ScenarioVocabulary == {0, 1, 2, 3}

\* the beam widths and models of the scenarios: "a_eos" with k = 1, the
\* others with every beam width.  maxlen is 10 for k = 1; with a wider beam
\* the hypotheses of probability 0 that fill the free slots are followed for
\* MaxLen + 1 steps.
ScenarioCases == {c \in [k : 1..MaxK, b : ScenarioBehaviours] : c.b = "a_eos" => c.k = 1}

ScenarioInit ==
    /\ \E c \in ScenarioCases : k = c.k /\ f_next = <<c.b>>
    /\ maxlen = IF k = 1 THEN 10 ELSE MaxLen + 1
    /\ voc_size = Cardinality(ScenarioVocabulary)
    /\ return_alignment \in BOOLEAN
    /\ stochastic = FALSE
    /\ xs = SingleSource
    /\ init_decoder = FALSE
    /\ suppress_unk = FALSE
    /\ BeamLocals
    /\ tie_rule = "any"
    /\ run = 1
    /\ first_sample = <<>>
    /\ first_score = <<>>
    /\ first_word_probs = <<>>
    /\ PoolIdle

\* k is at most the vocabulary size here: argpartition cannot raise
ScenarioNext == Step \/ Dump

ScenarioSpec == ScenarioInit /\ [][ScenarioNext]_vars

\* ---- one job from the search to the written output
\* a score is a cost divided by a whole number: [num, den]
\* ( nan / d is nan, inf / d is inf )
Ratio(c, d) ==
    IF c >= NaN THEN [num |-> NaN, den |-> 1]
    ELSE IF c >= Inf THEN [num |-> Inf, den |-> 1]
    ELSE [num |-> c, den |-> d]
RatioLess(a, b) == a.num * b.den < b.num * a.den

\* mutant: the length is multiplied by alpha
AdjustedLengthTimes(len, alpha) == len * alpha

\* line 411: len(s) ** normalization_alpha
AdjustedLength(len, alpha) == len ^ alpha

\* lines 410-412: the scores of the search, normalized when alpha is not 0
NormalizedScores ==
    [t \in 1..Len(sample) |->
        IF translation_settings.normalization_alpha # 0
        THEN Ratio(sample_score[t],
                   AdjustedLength(Len(sample[t]), translation_settings.normalization_alpha))
        ELSE Ratio(sample_score[t], 1)]

\* line 416, numpy.argmin: the first index of a lowest score; the index of
\* the first nan when there is one
ArgMin(score) ==
    IF \E t \in 1..Len(score) : score[t].num >= NaN
    THEN CHOOSE t \in 1..Len(score) :
            /\ score[t].num >= NaN
            /\ \A u \in 1..(t - 1) : score[u].num < NaN
    ELSE CHOOSE t \in 1..Len(score) :
            /\ \A u \in 1..Len(score) : ~RatioLess(score[u], score[t])
            /\ \A u \in 1..(t - 1) : RatioLess(score[t], score[u])

\* lines 413-420: the output item of the job
OutputItem ==
    IF translation_settings.n_best
    THEN [samples |-> sample, score |-> NormalizedScores, word_probs |-> sample_word_probs,
          alignments |-> alignments]
    ELSE [samples    |-> sample[ArgMin(NormalizedScores)],
          score      |-> NormalizedScores[ArgMin(NormalizedScores)],
          word_probs |-> sample_word_probs[ArgMin(NormalizedScores)],
          alignments |-> [s \in 1..Len(alignments) |->
                            alignments[s][ArgMin(NormalizedScores)]]]

\* lines 403-422: gen_sample has returned to _translate, which makes the
\* output item
TranslateJob ==
    /\ pc = "done"
    /\ output_item = NoItem
    /\ output_item' = OutputItem
    /\ UNCHANGED <<num_processes, options, translation_settings, output_file,
                   source_segments, input_queue, output_queue, processes,
                   retrieved_translations, cpc, sidx, n_samples, request_id, translations>>
    /\ UNCHANGED beam_vars

\* the target dictionary, inverted (lines 256-263)
WordOf(id) == CASE id = 0 -> "<eos>" [] id = 2 -> "A" [] id = 3 -> "B" [] OTHER -> "UNK"

\* util.seqs2words(seq, word_idict_trg, join=False): the words of the ids
\* before the first 0
RECURSIVE seqs2words(_)
seqs2words(seq) ==
    IF seq = <<>> \/ Head(seq) = 0 THEN <<>>
    ELSE <<WordOf(Head(seq))>> \o seqs2words(Tail(seq))

\* lines 644-651: with n_best the loop over the hypotheses evaluates
\* len(self.num_encoders - 1), the length of a number: TypeError
ReturnNBestRaise ==
    /\ cpc = "idle"
    /\ output_item # NoItem
    /\ translation_settings.n_best
    /\ Len(output_item.samples) > 0
    /\ cpc' = "raised"
    /\ UNCHANGED <<num_processes, options, translation_settings, output_item, output_file,
                   source_segments, input_queue, output_queue, processes,
                   retrieved_translations, sidx, n_samples, request_id, translations>>
    /\ UNCHANGED beam_vars

\* lines 666-684: the Translation of the best hypothesis; translate returns
ReturnBest ==
    /\ cpc = "idle"
    /\ output_item # NoItem
    /\ ~translation_settings.n_best
    /\ translations' = << [sentence_id   |-> 0,
                           target_words  |-> seqs2words(output_item.samples),
                           score         |-> output_item.score,
                           target_probs  |-> output_item.word_probs,
                           hypothesis_id |-> "None"] >>
    /\ cpc' = "returned"
    /\ UNCHANGED <<num_processes, options, translation_settings, output_item, output_file,
                   source_segments, input_queue, output_queue, processes,
                   retrieved_translations, sidx, n_samples, request_id>>
    /\ UNCHANGED beam_vars

\* A text is a sequence of pieces: words, numbers written out, separators.
\* str(x) and "{0}".format(x): the piece that writes the number x
Str(x) == [str |-> x]
\* the piece that is the word w, and the piece that is the separator c
Word(w) == [word |-> w]
Sep(c) == [sep |-> c]

\* sep.join(items), the items being texts
RECURSIVE Join(_, _)
Join(items, sep) ==
    IF items = <<>> THEN <<>>
    ELSE IF Len(items) = 1 THEN items[1]
    ELSE items[1] \o <<sep>> \o Join(Tail(items), sep)

\* line 728: Translation.get_target_probs
TargetProbsText(t) ==
    Join([x \in 1..Len(t.target_probs) |-> <<Str(t.target_probs[x])>>], Sep(" "))

\* mutant: the items of a best translation are joined like those of an
\* n-best line
BestSeparatorBars == " ||| "

\* line 755: the separator of the items of a best translation
BestSeparator == "\n"

\* lines 736-750: the items written for a translation
OutputItems(t) ==
    (IF translation_settings.n_best THEN << <<Str(t.sentence_id)>> >> ELSE <<>>)
    \o << Join([x \in 1..Len(t.target_words) |-> <<Word(t.target_words[x])>>], Sep(" ")) >>
    \o (IF translation_settings.n_best THEN << <<Str(t.score)>> >> ELSE <<>>)
    \o (IF translation_settings.get_word_probs THEN <<TargetProbsText(t)>> ELSE <<>>)

\* lines 752-755: what write_translation writes for a translation
WrittenText(t) ==
    IF translation_settings.n_best
    THEN Join(OutputItems(t), Sep(" ||| ")) \o <<Sep("\n")>>
    ELSE Join(OutputItems(t), Sep(BestSeparator)) \o <<Sep("\n")>>

\* lines 774-785 and 732-755: write_translations writes the translation that
\* translate returned
WriteBest ==
    /\ cpc = "returned"
    /\ ~translation_settings.n_best
    /\ output_file' = output_file \o WrittenText(translations[1])
    /\ cpc' = "written"
    /\ UNCHANGED <<num_processes, options, translation_settings, output_item,
                   source_segments, input_queue, output_queue, processes,
                   retrieved_translations, sidx, n_samples, request_id, translations>>
    /\ UNCHANGED beam_vars

\* the models and beam widths of the scenarios, and a model that never ends
\* a sentence
OutputCases == ScenarioCases \cup {[k |-> 1, b |-> "no_eos"]}

\* one segment is translated with one of these models and any settings
OutputInit ==
    /\ \E c \in OutputCases : k = c.k /\ f_next = <<c.b>>
    /\ maxlen = MaxLen + 1
    /\ voc_size = Cardinality(ScenarioVocabulary)
    /\ return_alignment = FALSE
    /\ stochastic = FALSE
    /\ xs = SingleSource
    /\ init_decoder = FALSE
    /\ suppress_unk = FALSE
    /\ BeamLocals
    /\ tie_rule = "any"
    /\ run = 1
    /\ first_sample = <<>>
    /\ first_score = <<>>
    /\ first_word_probs = <<>>
    /\ num_processes = 0
    /\ options = PlainOptions
    /\ translation_settings \in [normalization_alpha : 0..MaxAlpha, n_best : BOOLEAN,
                                 get_word_probs : BOOLEAN]
    /\ output_item = NoItem
    /\ output_file = <<>>
    /\ source_segments = <<>>
    /\ input_queue = <<>>
    /\ output_queue = <<>>
    /\ processes = <<>>
    /\ retrieved_translations = <<>>
    /\ cpc = "idle"
    /\ sidx = -1
    /\ n_samples = 0
    /\ request_id = TheRequest
    /\ translations = <<>>

OutputNext == Step \/ Dump \/ TranslateJob \/ ReturnNBestRaise \/ ReturnBest \/ WriteBest

OutputSpec == OutputInit /\ [][OutputNext]_vars

\* ---- a job translated with or without suppress_unk (lines 431 and 450
\* of translate.py hand the setting of the job to gen_sample)
UnkInit ==
    /\ k \in 1..MaxK
    /\ maxlen \in 1..MaxLen
    /\ voc_size \in 2..MaxVoc
    /\ k * voc_size <= MaxCands
    /\ \E n \in 1..MaxModels : f_next \in [1..n -> Behaviours]
    /\ return_alignment \in BOOLEAN
    /\ stochastic = FALSE
    /\ xs = SingleSource
    /\ init_decoder = FALSE
    /\ suppress_unk \in BOOLEAN
    /\ BeamLocals
    /\ tie_rule = "any"
    /\ run = 1
    /\ first_sample = <<>>
    /\ first_score = <<>>
    /\ first_word_probs = <<>>
    /\ num_processes = 0
    /\ options = PlainOptions
    /\ translation_settings \in [normalization_alpha : {0, 1}, n_best : {FALSE},
                                 get_word_probs : {FALSE}]
    /\ output_item = NoItem
    /\ output_file = <<>>
    /\ source_segments = <<>>
    /\ input_queue = <<>>
    /\ output_queue = <<>>
    /\ processes = <<>>
    /\ retrieved_translations = <<>>
    /\ cpc = "idle"
    /\ sidx = -1
    /\ n_samples = 0
    /\ request_id = TheRequest
    /\ translations = <<>>

UnkNext == Step \/ StepError \/ Dump \/ TranslateJob

UnkSpec == UnkInit /\ [][UnkNext]_vars

\* ---- beam search over one or more sources (_multi_sample, lines 436-452
\* of translate.py): init_decoder is set for the policy init-decoder, which
\* has an auxiliary source
MultiInit ==
    /\ k \in 1..MaxK
    /\ maxlen \in 1..MaxLen
    /\ voc_size \in 2..MaxVoc
    /\ k * voc_size <= MaxCands
    /\ \E n \in 1..MaxModels : f_next \in [1..n -> Behaviours]
    /\ return_alignment \in BOOLEAN
    /\ stochastic = FALSE
    /\ \E n \in 0..MaxExtra : n + 1 <= 3 /\ xs = Inputs(n)
    /\ init_decoder \in BOOLEAN
    /\ init_decoder => Len(xs) > 1
    /\ suppress_unk = FALSE
    /\ BeamLocals
    /\ tie_rule = "any"
    /\ run = 1
    /\ first_sample = <<>>
    /\ first_score = <<>>
    /\ first_word_probs = <<>>
    /\ PoolIdle

MultiNext == Step \/ StepError \/ AlphasIndexError \/ Dump

MultiSpec == MultiInit /\ [][MultiNext]_vars

\* ---- two calls of gen_sample with the same arguments
DetInit ==
    /\ k \in 1..MaxK
    /\ maxlen \in 1..MaxLen
    /\ voc_size \in 2..MaxVoc
    /\ k * voc_size <= MaxCands
    /\ \E n \in 1..MaxModels : f_next \in [1..n -> Behaviours]
    /\ return_alignment \in BOOLEAN
    /\ stochastic = FALSE
    /\ xs = SingleSource
    /\ init_decoder = FALSE
    /\ suppress_unk = FALSE
    /\ BeamLocals
    /\ tie_rule \in TieRules
    /\ run = 1
    /\ first_sample = <<>>
    /\ first_score = <<>>
    /\ first_word_probs = <<>>
    /\ PoolIdle

\* lines 1156-1325: a search step when argpartition follows a fixed rule
DetStep ==
    /\ pc = "loop"
    /\ ~stochastic
    /\ ~AlphasRaise
    /\ CanStep
    /\ StepWith(ArgPartitionRule(CandFlat, live_k * voc_size, NumSelected(k, dead_k),
                                 TieRule(tie_rule, run)))

\* gen_sample has returned and is called again with the same models, input
\* and k, and with return_alignment = align
RerunWith(align) ==
    /\ pc = "done"
    /\ run = 1
    /\ run' = 2
    /\ first_sample' = sample
    /\ first_score' = sample_score
    /\ first_word_probs' = sample_word_probs
    /\ return_alignment' = align
    /\ pc' = "loop"
    /\ ii' = 0
    /\ inps' = NoStep
    /\ live_k' = Locals0(k, align, Len(f_next)).live_k
    /\ dead_k' = 0
    /\ hyp_samples' = Locals0(k, align, Len(f_next)).hyp_samples
    /\ word_probs' = Locals0(k, align, Len(f_next)).word_probs
    /\ hyp_scores' = Locals0(k, align, Len(f_next)).hyp_scores
    /\ hyp_alignment' = Locals0(k, align, Len(f_next)).hyp_alignment
    /\ next_state' = Locals0(k, align, Len(f_next)).next_state
    /\ next_w' = Locals0(k, align, Len(f_next)).next_w
    /\ sample' = <<>>
    /\ sample_score' = <<>>
    /\ sample_word_probs' = <<>>
    /\ alignments' = [s \in 1..Len(xs) |-> <<>>]
    /\ cand_flat' = NoStep
    /\ probs_flat' = NoStep
    /\ ranks_flat' = NoStep
    /\ new_hyp_samples' = NoStep
    /\ new_hyp_scores' = NoStep
    /\ UNCHANGED <<k, maxlen, voc_size, f_next, stochastic, tie_rule,
                 xs, init_decoder, suppress_unk>>
    /\ UNCHANGED pool_vars

\* gen_sample has returned and is called again with the same arguments
Rerun == RerunWith(return_alignment)

\* gen_sample has returned and is called again, alignment reporting switched
\* from off to on or from on to off
RerunAligned == RerunWith(~return_alignment)

DetNext == DetStep \/ StepError \/ Dump \/ Rerun

DetSpec == DetInit /\ [][DetNext]_vars

\* ---- two calls of gen_sample that differ in return_alignment only
AlignNext == DetStep \/ StepError \/ Dump \/ RerunAligned

AlignSpec == DetInit /\ [][AlignNext]_vars

\* ---- an ensemble's search that goes on after its second step
StateInit ==
    /\ k \in 2..MaxK
    /\ maxlen = MaxLen + 1
    /\ voc_size \in 2..(MaxVoc - 1)
    /\ f_next \in [1..MaxModels -> Behaviours]
    /\ return_alignment = FALSE
    /\ stochastic = FALSE
    /\ xs = SingleSource
    /\ init_decoder = FALSE
    /\ suppress_unk = FALSE
    /\ BeamLocals
    /\ tie_rule = "any"
    /\ run = 1
    /\ first_sample = <<>>
    /\ first_score = <<>>
    /\ first_word_probs = <<>>
    /\ PoolIdle

StateNext == Step \/ StepError \/ Dump

StateSpec == StateInit /\ [][StateNext]_vars

Next == Step \/ StepError \/ Dump

Spec == Init /\ [][Next]_vars

\* ================================================================ claims
Last(s) == s[Len(s)]
Stepped == ranks_flat # NoStep
\* number of entries of seq s that end with EOS
NumEos(s) == Cardinality({x \in DOMAIN s : Last(s[x]) = 0})

\* C1: in beam search, after the initialisation and after every step, the
\* number of live hypotheses plus dead_k is at most the beam width k.
C1_BeamBound ==
    /\ live_k = Len(hyp_samples)
    /\ Len(hyp_samples) + dead_k <= k

\* a step has left live and finished hypotheses side by side, and the search goes on
C1_Witness ==
    /\ pc = "loop"
    /\ ii >= 1
    /\ dead_k >= 1
    /\ live_k >= 1

\* C2 (as stated): a completed search that ended before maxlen steps holds
\* exactly k finished hypotheses; one that reached maxlen has at least one
\* hypothesis finished, and finished plus live-at-maxlen is k.
C2_Original ==
    pc = "done" =>
        /\ ii < maxlen => Len(sample) = k
        /\ ii = maxlen => (dead_k >= 1 /\ dead_k + live_k = k)

\* C2 (amended): a completed search that ended before maxlen steps holds
\* exactly k finished hypotheses; one that reached maxlen has finished plus
\* live-at-maxlen equal to k, where the finished may be none; in both cases
\* exactly k hypotheses are returned.
C2_Amended ==
    pc = "done" =>
        /\ ii < maxlen => (dead_k = k /\ live_k = 0)
        /\ ii = maxlen => dead_k + live_k = k
        /\ Len(sample) = k
        /\ Len(sample_score) = k
        /\ Len(sample_word_probs) = k

\* a search has completed at maxlen with nothing finished and k >= 2 live
C2_Witness ==
    /\ pc = "done"
    /\ ii = maxlen
    /\ dead_k = 0
    /\ k >= 2
    /\ Len(sample) = k

\* C3: the candidates selected at a step are k - dead_k distinct candidates of
\* the flattened (hypothesis x token) set, no unselected candidate costs
\* strictly less than a selected one, and each selected candidate becomes the
\* hypothesis "parent + token" with the candidate's cost.
C3_GlobalLowest ==
    Stepped =>
        LET n   == Len(ranks_flat)
            sel == {ranks_flat[x] : x \in 1..n}
        IN  /\ n = (k - dead_k) + NumEos(new_hyp_samples)
            /\ Cardinality(sel) = n
            /\ sel \subseteq DOMAIN cand_flat
            /\ Cardinality(DOMAIN cand_flat) % voc_size = 0
            /\ \A c \in (DOMAIN cand_flat) \ sel : \A r \in sel :
                    ~(cand_flat[c] < cand_flat[r])
            /\ Len(new_hyp_samples) = n
            /\ \A x \in 1..n :
                    /\ Last(new_hyp_samples[x]) = ranks_flat[x] % voc_size
                    /\ new_hyp_scores[x] = cand_flat[ranks_flat[x]]

\* two selected candidates extend the same parent although another parent's
\* candidates were there, and some unselected candidate costs strictly more
C3_Witness ==
    /\ Stepped
    /\ Cardinality(DOMAIN cand_flat) >= 2 * voc_size
    /\ \E x, y \in 1..Len(ranks_flat) :
            /\ x # y
            /\ ranks_flat[x] \div voc_size = ranks_flat[y] \div voc_size
    /\ \E c \in DOMAIN cand_flat : \A x \in 1..Len(ranks_flat) :
            cand_flat[c] > cand_flat[ranks_flat[x]]

\* C4: after every step the selected candidates ending in EOS are in the
\* finished set and the others are live; no live hypothesis contains EOS,
\* every hypothesis finished by a step ends with EOS and has it nowhere
\* else, and dead_k counts the finished set.
C4_EosPartition ==
    /\ \A h \in 1..Len(hyp_samples) : \A t \in 1..Len(hyp_samples[h]) :
            hyp_samples[h][t] # 0
    /\ dead_k <= Len(sample)
    /\ pc # "done" => dead_k = Len(sample)
    /\ \A j \in 1..dead_k :
            /\ Len(sample[j]) >= 1
            /\ \A t \in 1..Len(sample[j]) : (sample[j][t] = 0) <=> (t = Len(sample[j]))
    /\ Stepped =>
            /\ Len(hyp_samples) + NumEos(new_hyp_samples) = Len(new_hyp_samples)
            /\ \A x \in 1..Len(new_hyp_samples) :
                    IF Last(new_hyp_samples[x]) = 0
                    THEN \E j \in (dead_k - NumEos(new_hyp_samples) + 1)..dead_k :
                            /\ sample[j] = new_hyp_samples[x]
                            /\ sample_score[j] = new_hyp_scores[x]
                    ELSE \E h \in 1..Len(hyp_samples) :
                            /\ hyp_samples[h] = new_hyp_samples[x]
                            /\ hyp_scores[h] = new_hyp_scores[x]

\* a step selected an EOS candidate and a non-EOS candidate (UNK among them)
C4_Witness ==
    /\ Stepped
    /\ pc = "loop"
    /\ NumEos(new_hyp_samples) >= 1
    /\ \E x \in 1..Len(new_hyp_samples) : Last(new_hyp_samples[x]) = 1


\* C5: beam search terminates: the step counter never exceeds maxlen, every
\* pass through the loop adds one to it (or raises), in the loop a pass is
\* always possible and after the loop only the return follows; the loop goes
\* on after a step exactly when live hypotheses remain, dead_k is below k and
\* fewer than maxlen steps were made; leaving it with an empty live beam
\* leads to the normal return.
C5_Terminates ==
    /\ [](/\ ii <= maxlen
          /\ pc = "loop" => (ii < maxlen /\ (CanStep \/ CanRaise))
          /\ (pc = "loop" /\ ii >= 1) => (live_k >= 1 /\ dead_k < k)
          /\ (pc \in {"dump", "done"} /\ ii < maxlen) => (dead_k >= k \/ live_k < 1)
          /\ live_k < 1 => pc \in {"dump", "done"})
    /\ [][pc = "loop" => (ii' = ii + 1 \/ pc' = "error")]_vars
    /\ [][pc = "dump" => pc' = "done"]_vars
    /\ [][pc \notin {"loop", "dump"} => UNCHANGED vars]_vars

\* the search has returned before maxlen steps because the live beam was empty
C5_Witness ==
    /\ pc = "done"
    /\ ii < maxlen
    /\ live_k = 0
    /\ Len(sample) = k

\* C6: the dump after the loop appends every live hypothesis to the finished
\* set, in order and as it is: same tokens (no EOS added), same cost, same
\* word probabilities, same alignment history.
C6_DumpUnchanged ==
    [][pc = "dump" =>
        /\ Len(sample') = Len(sample) + live_k
        /\ \A h \in 1..live_k :
              /\ sample'[Len(sample) + h] = hyp_samples[h]
              /\ sample_score'[Len(sample) + h] = hyp_scores[h]
              /\ sample_word_probs'[Len(sample) + h] = word_probs[h]
              /\ return_alignment =>
                    \A s \in 1..Len(xs) : alignments'[s][Len(sample) + h] = hyp_alignment[s][h]
              /\ Last(sample'[Len(sample) + h]) # 0
        /\ \A j \in 1..Len(sample) :
              /\ sample'[j] = sample[j]
              /\ sample_score'[j] = sample_score[j]]_vars

\* maxlen was reached with two live hypotheses next to a finished one, with
\* alignment histories, and they were dumped
C6_Witness ==
    /\ pc = "done"
    /\ ii = maxlen
    /\ live_k >= 2
    /\ dead_k >= 1
    /\ return_alignment
    /\ Len(sample) = dead_k + live_k

\* the probability that model i gives, before the step, to candidate r
CandProb(i, r) == StepProbs(i, (r \div voc_size) + 1)[r % voc_size]
RECURSIVE ProdTo(_, _)
\* product of f[1] .. f[n]
ProdTo(f, n) == IF n = 0 THEN 1 ELSE f[n] * ProdTo(f, n - 1)

\* C7 (as stated): the cost a step adds to a hypothesis for token t is minus
\* the log of the arithmetic mean of the models' probabilities of t:
\* 2^-added = mean, and the cost is infinite exactly when the mean is 0.
C7_Original ==
    [][(pc = "loop" /\ pc' # "error") =>
        \A x \in 1..Len(ranks_flat') :
            LET r      == ranks_flat'[x]
                parent == hyp_scores[(r \div voc_size) + 1]
                new    == new_hyp_scores'[x]
                mean   == probs_flat'[r]
            IN  parent < Inf =>
                    IF mean = 0 THEN new = Inf
                    ELSE /\ new < Inf
                         /\ (2 ^ (new - parent)) * mean = Denom * NumModels]_vars

\* C7 (amended): the cost a step adds to a hypothesis for token t is the sum
\* over the models of minus the log of the model's probability of t, i.e.
\* minus the log of the product of the N probabilities: 2^-added = product,
\* and the cost is infinite exactly when one model gives t probability 0.
\* For N = 1 this is minus the log of the (mean) probability.
C7_Amended ==
    [][(pc = "loop" /\ pc' # "error") =>
        \A x \in 1..Len(ranks_flat') :
            LET r      == ranks_flat'[x]
                parent == hyp_scores[(r \div voc_size) + 1]
                new    == new_hyp_scores'[x]
                prod   == ProdTo([i \in 1..NumModels |-> CandProb(i, r)], NumModels)
            IN  parent < Inf =>
                    IF prod = 0 THEN new = Inf
                    ELSE /\ new < Inf
                         /\ (2 ^ (new - parent)) * prod = Denom ^ NumModels]_vars

\* a step of a two-model ensemble has selected a candidate of finite cost > 0
\* to which the two models give different probabilities
C7_Witness ==
    /\ Stepped
    /\ NumModels = 2
    /\ f_next[1] # f_next[2]
    /\ \E x \in 1..Len(new_hyp_scores) :
            /\ new_hyp_scores[x] > 0
            /\ new_hyp_scores[x] < Inf
            /\ probs_flat[ranks_flat[x]] \notin {Denom, 2 * Denom}

\* all models of the ensemble are the same model
Identical == \A i \in 1..NumModels : f_next[i] = f_next[1]
\* N times a cost
ScaleCost(n, c) == IF c >= Inf THEN Inf ELSE n * c
\* the cost one of the (identical) models alone gives a hypothesis with the
\* word probabilities wps: the sum of minus the logs of its probabilities
SingleCost(wps) ==
    SumCost([t \in 1..Len(wps) |-> NegLog(wps[t] \div NumModels)], Len(wps))
\* the combined probabilities wps are those of one model alone
SingleProbs(wps) == \A t \in 1..Len(wps) : wps[t] % NumModels = 0

\* C8 (as stated): with identical models the combined distribution is the
\* single model's, and every hypothesis has the cost the single model gives
\* it.
C8_Original ==
    Identical =>
        /\ \A h \in 1..Len(hyp_samples) :
              /\ SingleProbs(word_probs[h])
              /\ hyp_scores[h] = SingleCost(word_probs[h])
        /\ \A j \in 1..Len(sample) :
              /\ SingleProbs(sample_word_probs[j])
              /\ sample_score[j] = SingleCost(sample_word_probs[j])

\* C8 (amended): with N identical models the combined distribution (the word
\* probabilities) is the single model's, and every candidate and every
\* hypothesis costs N times what the single model gives it, so that the
\* candidates are ranked as by the single model: the token sequences and the
\* word probabilities are those of the single model, the costs N times its.
C8_Amended ==
    /\ [](Identical =>
            /\ \A h \in 1..Len(hyp_samples) :
                  /\ SingleProbs(word_probs[h])
                  /\ hyp_scores[h] = ScaleCost(NumModels, SingleCost(word_probs[h]))
            /\ \A j \in 1..Len(sample) :
                  /\ SingleProbs(sample_word_probs[j])
                  /\ sample_score[j] = ScaleCost(NumModels, SingleCost(sample_word_probs[j])))
    /\ [][(Identical /\ pc = "loop" /\ pc' # "error") =>
            \A c \in DOMAIN cand_flat' :
                /\ probs_flat'[c] = NumModels * CandProb(1, c)
                /\ cand_flat'[c] =
                      ScaleCost(NumModels,
                                AddCost(SingleCost(word_probs[(c \div voc_size) + 1]),
                                        NegLog(CandProb(1, c))))]_vars

\* the search of an ensemble of two identical models has returned a
\* hypothesis of finite cost > 0
C8_Witness ==
    /\ pc = "done"
    /\ NumModels = 2
    /\ Identical
    /\ \E j \in 1..Len(sample) : sample_score[j] > 0 /\ sample_score[j] < Inf

\* the output item computed for the segment with sequence index i (from 0)
ResultOf(i) == TranslateItem(QueueItem(i, source_segments[i + 1], TheRequest))

\* C9: for any number of workers and any batch of N segments of one translate
\* call, whatever the order in which the workers finish, every result the
\* parent buffers is kept under its own sequence index, and translate returns
\* exactly N results, the i-th being the one computed for the segment with
\* sequence index i.
C9_OrderedResults ==
    /\ cpc = "retrieve" =>
          \A i \in DOMAIN retrieved_translations[TheRequest] :
              /\ i \in 0..(Len(source_segments) - 1)
              /\ retrieved_translations[TheRequest][i] = ResultOf(i)
    /\ cpc \in {"returned", "shutdown"} =>
          /\ Len(translations) = Len(source_segments)
          /\ \A i \in 1..Len(source_segments) :
                translations[i] = Translation(i - 1, source_segments[i], ResultOf(i - 1))

\* two workers have finished out of order: the parent holds the result of
\* segment 1, a segment unlike segment 0, while the result of segment 0 is
\* still to come
C9_Witness ==
    /\ cpc = "retrieve"
    /\ num_processes = 2
    /\ Len(source_segments) >= 2
    /\ source_segments[1] # source_segments[2]
    /\ 1 \in DOMAIN retrieved_translations[TheRequest]
    /\ 0 \notin DOMAIN retrieved_translations[TheRequest]

\* a worker has exited with a non-zero status in the middle of a job
CrashedInJob == \E w \in 1..num_processes : processes[w].st = "exited" /\ processes[w].exitcode = 1

\* C10: once a worker has exited non-zero in the middle of a job, translate
\* yields no result; the first poll of the output queue that times out finds
\* the dead worker, terminates every worker and exits with status 1; and the
\* parent does get there.
C10_CrashAborts ==
    /\ [](CrashedInJob => (translations = <<>> /\ cpc \in {"send", "retrieve", "exit1"}))
    /\ [][(CrashedInJob /\ cpc = "retrieve" /\ cpc' # "retrieve") =>
            /\ output_queue = <<>>
            /\ cpc' = "exit1"
            /\ \A w \in 1..num_processes : ~IsAlive(processes'[w])]_vars
    /\ [][cpc = "exit1" => UNCHANGED vars]_vars
    /\ (CrashedInJob ~> cpc = "exit1")

\* the parent has exited with status 1 after one of two workers crashed in a
\* job, having terminated the other worker, with results of the request
\* already buffered
C10_Witness ==
    /\ cpc = "exit1"
    /\ num_processes = 2
    /\ \E w \in 1..2 : processes[w].exitcode = 1
    /\ \E w \in 1..2 : processes[w].exitcode = -15
    /\ DOMAIN retrieved_translations[TheRequest] # {}
    /\ translations = <<>>

\* the output item computed for the job with sequence index i of OtherRequest
ResultOfOther(i) == TranslateItem(QueueItem(i, OtherSegment(i), OtherRequest))
\* the output item a worker publishes for sequence index i of request r
Published(r, i) == IF r = TheRequest THEN ResultOf(i) ELSE ResultOfOther(i)

\* C11 (as stated): while translate retrieves the results of TheRequest, every
\* result taken from the output queue is buffered under its own request id
\* and sequence index; the retrieval ends, apart from the exit after a worker
\* crash, only by returning, and only when all N sequence indices of
\* TheRequest are buffered; and the results it yields are the N results
\* published for TheRequest.
C11_Original ==
    /\ [](\A r \in DOMAIN retrieved_translations :
            \A i \in DOMAIN retrieved_translations[r] :
                retrieved_translations[r][i] = Published(r, i))
    /\ [][(cpc = "retrieve" /\ cpc' \notin {"retrieve", "exit1"}) =>
            /\ cpc' = "returned"
            /\ \A i \in 0..(n_samples - 1) :
                    i \in DOMAIN retrieved_translations[TheRequest]
            /\ Len(translations') = n_samples
            /\ \A i \in 1..n_samples :
                    translations'[i] =
                        Translation(i - 1, source_segments[i], ResultOf(i - 1))]_vars

\* translate has returned, to the caller of TheRequest, a result that a worker
\* published for OtherRequest, while the result of TheRequest was never taken
C11_Witness ==
    /\ cpc = "returned"
    /\ request_id = OtherRequest
    /\ Len(translations) >= 1
    /\ translations[1].target_words = ResultOfOther(0).samples
    /\ translations[1].target_words # ResultOf(0).samples
    /\ TheRequest \in DOMAIN retrieved_translations

NumPoison == Cardinality({x \in 1..Len(input_queue) : input_queue[x] = Poison})
\* worker w has left its loop by the break of line 383 and returned
ExitedOk(w) == processes[w].st = "exited" /\ processes[w].exitcode = 0

\* C13: a worker leaves its job loop (and returns, exit status 0) in exactly
\* the steps in which it takes a None from the input queue, and none does
\* before shutdown; once shutdown has put one None per worker, the Nones on
\* the queue and the workers that have left their loop always add up to the
\* number of workers, and eventually every worker has left its loop and no
\* None is on the input queue.
C13_PoisonExit ==
    /\ [][\A w \in 1..num_processes :
            (processes[w].st # "exited" /\ ExitedOk(w)')
            <=> /\ processes[w].st = "waiting"
                /\ processes'[w] # processes[w]
                /\ input_queue # <<>>
                /\ Head(input_queue) = Poison
                /\ input_queue' = Tail(input_queue)]_vars
    /\ [](\A w \in 1..num_processes : ExitedOk(w) => cpc = "shutdown")
    /\ [](cpc = "shutdown" =>
            NumPoison + Cardinality({w \in 1..num_processes : ExitedOk(w)}) = num_processes)
    /\ (cpc = "shutdown") ~> (/\ \A w \in 1..num_processes : ExitedOk(w)
                              /\ NumPoison = 0
                              /\ input_queue = <<>>)

\* after shutdown two workers have left their loops, each on a None of its
\* own, and the input queue is empty
C13_Witness ==
    /\ cpc = "shutdown"
    /\ num_processes = 2
    /\ Len(source_segments) >= 2
    /\ \A w \in 1..2 : ExitedOk(w)
    /\ input_queue = <<>>

\* the job of request r with sequence index i waits on the input queue
JobQueued(r, i) ==
    \E x \in 1..Len(input_queue) :
        /\ input_queue[x] # Poison
        /\ input_queue[x].request_id = r
        /\ input_queue[x].idx = i
\* the result of that job is on the output queue
ResultPublished(r, i) ==
    \E x \in 1..Len(output_queue) : output_queue[x][1] = r /\ output_queue[x][2] = i
\* some worker has ended otherwise than by a None
AnyCrashed == \E w \in 1..num_processes : Crashed(processes[w])

\* C14: no job is cancelled.  No job waits behind a None on the input queue;
\* a worker that has taken a job gives it up only by publishing the job's
\* result, after which it is back in its loop, or by crashing or being
\* terminated after a crash; a worker that has left its loop holds no job;
\* and, unless a worker crashes, every job on the input queue has its result
\* published, also when shutdown has put its Nones meanwhile.
C14_NoCancellation ==
    /\ [](\A x, y \in 1..Len(input_queue) :
            (input_queue[x] = Poison /\ x < y) => input_queue[y] = Poison)
    /\ [](\A w \in 1..num_processes : ExitedOk(w) => processes[w].job = NoJob)
    /\ [][\A w \in 1..num_processes :
            (processes[w].st = "busy" /\ processes'[w] # processes[w]) =>
                \/ /\ processes'[w].st = "waiting"
                   /\ Len(output_queue') >= 1
                   /\ Last(output_queue') =
                         <<processes[w].job.request_id, processes[w].job.idx,
                           Published(processes[w].job.request_id, processes[w].job.idx)>>
                \/ AnyCrashed']_vars
    /\ \A r \in {TheRequest, OtherRequest} : \A i \in 0..(MaxSegs - 1) :
            JobQueued(r, i) ~> (ResultPublished(r, i) \/ AnyCrashed)

\* after shutdown one worker has left its loop while another is still at a
\* job that was queued before the Nones, with a None waiting for it
C14_Witness ==
    /\ cpc = "shutdown"
    /\ \E w \in 1..num_processes : ExitedOk(w)
    /\ \E w \in 1..num_processes : processes[w].st = "busy"
    /\ NumPoison >= 1
    /\ ~AnyCrashed

\* scenario A: k = 1, maxlen = 10, one model giving token 2 and then EOS
\* probability 1
ScenarioA == k = 1 /\ maxlen = 10 /\ voc_size = 4 /\ f_next = <<"a_eos">>

\* C15: in scenario A the search makes two steps and returns exactly one
\* hypothesis, [2, 0], with cost 0.
C15_ScenarioA ==
    ScenarioA =>
        /\ pc \in {"loop", "dump", "done"}
        /\ ii <= 2
        /\ ii = 2 => pc \in {"dump", "done"}
        /\ pc = "done" => (ii = 2 /\ sample = << <<2, 0>> >> /\ sample_score = <<0>>)

\* the search of scenario A has returned
C15_Witness ==
    /\ ScenarioA
    /\ pc = "done"
    /\ Len(sample) = 1
    /\ sample_word_probs = << <<Denom, Denom>> >>

\* scenario B: k = 3, one model giving tokens 2 and 3 probability 1/2 each at
\* the first step and then EOS probability 1
ScenarioB == k = 3 /\ voc_size = 4 /\ f_next = <<"ab_eos">>

\* C16 (as stated): in scenario B the search returns 3 hypotheses, each of
\* them [2, 0] or [3, 0], all with the same cost.
C16_Original ==
    (ScenarioB /\ pc = "done") =>
        /\ Len(sample) = 3
        /\ \A j \in 1..Len(sample) : sample[j] \in {<<2, 0>>, <<3, 0>>}
        /\ \A i, j \in 1..Len(sample) : sample_score[i] = sample_score[j]

\* C16 (amended): in scenario B the search returns 3 hypotheses: [2, 0] and
\* [3, 0], each once and both with cost ln 2, and a third one that is neither
\* and has probability 0 (infinite cost).  The first step starts from one
\* hypothesis, so that only two candidates of non-zero probability exist.
C16_Amended ==
    (ScenarioB /\ pc = "done") =>
        /\ Len(sample) = 3
        /\ \A t \in {<<2, 0>>, <<3, 0>>} :
              /\ Cardinality({j \in 1..Len(sample) : sample[j] = t}) = 1
              /\ \A j \in 1..Len(sample) : sample[j] = t => sample_score[j] = 1
        /\ \E j \in 1..Len(sample) :
              /\ sample[j] \notin {<<2, 0>>, <<3, 0>>}
              /\ sample_score[j] = Inf

\* the search of scenario B has returned [2, 0], [3, 0] and the hypothesis
\* [1, 0] of probability 0
C16_Witness ==
    /\ ScenarioB
    /\ pc = "done"
    /\ \E j \in 1..Len(sample) : sample[j] = <<1, 0>> /\ sample_score[j] = Inf
    /\ \E j \in 1..Len(sample) : sample[j] = <<2, 0>>
    /\ \E j \in 1..Len(sample) : sample[j] = <<3, 0>>

MinCand(cf) == CHOOSE v \in {cf[c] : c \in DOMAIN cf} : \A c \in DOMAIN cf : v <= cf[c]

Selected == {ranks_flat[x] : x \in 1..Len(ranks_flat)}

\* C19 (as stated): among candidates of equal cost the selected ones are the
\* first in the flattened order: no unselected candidate has the cost of a
\* selected candidate that comes after it.
C19_Original ==
    Stepped =>
        \A c \in Selected : \A d \in (DOMAIN cand_flat) \ Selected :
            cand_flat[d] = cand_flat[c] => c < d

\* C19 (amended): when candidates of equal cost do not all fit, every
\* candidate that costs less than they do is selected and the slots left are
\* filled with candidates of that cost, in no determined relation to their
\* place in the flattened order (numpy's argpartition promises none).
C19_Amended ==
    Stepped =>
        \A d \in (DOMAIN cand_flat) \ Selected :
            LET less == {c \in DOMAIN cand_flat : cand_flat[c] < cand_flat[d]}
                same == {c \in DOMAIN cand_flat : cand_flat[c] = cand_flat[d]}
            IN  (same \cap Selected # {}) =>
                    /\ less \subseteq Selected
                    /\ \A c \in Selected : cand_flat[c] <= cand_flat[d]
                    /\ Cardinality(same \cap Selected) =
                           Cardinality(Selected) - Cardinality(less)

\* k = 2 and first-step costs [2 ln 2, 2 ln 2, inf, ln 2]: of the two
\* candidates of cost 2 ln 2 the one with the higher token id was selected
C19_Witness ==
    /\ Stepped
    /\ ii = 1
    /\ k = 2
    /\ f_next = <<"late">>
    /\ cand_flat[0] = cand_flat[1]
    /\ Selected = {3, 1}

\* C20 (as stated): the search starts from k live hypotheses, each empty,
\* with cost 0 and previous token -1, and dead_k = 0.
C20_Original ==
    (pc = "loop" /\ ii = 0) =>
        /\ live_k = k
        /\ Len(hyp_samples) = k
        /\ Len(hyp_scores) = k
        /\ Len(next_w) = k
        /\ \A h \in 1..Len(hyp_samples) :
              hyp_samples[h] = <<>> /\ hyp_scores[h] = 0 /\ next_w[h] = -1
        /\ dead_k = 0

\* C20 (amended): the search starts from one live hypothesis whatever k is:
\* empty, with cost 0 and previous token -1, with dead_k = 0 and nothing
\* finished; the first step turns it into k hypotheses of one token.
C20_Amended ==
    /\ (pc = "loop" /\ ii = 0) =>
          /\ live_k = 1
          /\ hyp_samples = << <<>> >>
          /\ hyp_scores = <<0>>
          /\ word_probs = << <<>> >>
          /\ next_w = <<-1>>
          /\ \A i \in 1..NumModels : Len(next_state[i]) = 1
          /\ dead_k = 0
          /\ sample = <<>>
    /\ (Stepped /\ ii = 1) =>
          /\ Cardinality(DOMAIN cand_flat) = voc_size
          /\ Len(new_hyp_samples) = k
          /\ \A x \in 1..Len(new_hyp_samples) : Len(new_hyp_samples[x]) = 1

\* a search with beam width 3 is about to make its first step
C20_Witness ==
    /\ pc = "loop"
    /\ ii = 0
    /\ k = 3
    /\ live_k = 1
    /\ Len(hyp_samples) = 1

\* the sequence indices (from 0) of the segments that have a word whose
\* number of factors is not the configured one
BadSegments == {i \in 0..(Len(source_segments) - 1) : BadWords(source_segments[i + 1]) # {}}

\* the job with sequence index i, or its result, is somewhere in the pool
JobAnywhere(i) ==
    \/ JobQueued(TheRequest, i)
    \/ \E w \in 1..num_processes :
          processes[w].job # NoJob /\ processes[w].job.idx = i
    \/ ResultPublished(TheRequest, i)
    \/ /\ TheRequest \in DOMAIN retrieved_translations
       /\ i \in DOMAIN retrieved_translations[TheRequest]

\* C21: when a word of the input has a number of factors other than the
\* configured one, job submission ends with every worker terminated and the
\* parent exited with status 1; no job exists for that segment or a later
\* one, and translate has returned nothing.
C21_Original ==
    (cpc # "send" /\ BadSegments # {}) =>
        /\ cpc = "exit1"
        /\ \A w \in 1..num_processes : ~IsAlive(processes[w])
        /\ \A i \in BadSegments : \A j \in i..(Len(source_segments) - 1) : ~JobAnywhere(j)
        /\ translations = <<>>

\* a word with too few factors has stopped the submission after a job of an
\* earlier segment was taken by a worker
C21_Witness ==
    /\ cpc = "exit1"
    /\ BadSegments # {}
    /\ sidx >= 1
    /\ \E w \in 1..num_processes : processes[w].job # NoJob
    /\ \A w \in 1..num_processes : ~IsAlive(processes[w])

\* the system's model is multi-source and no auxiliary source is configured
MultiSourceNoAux == options.multisource_type # "None" /\ options.extra_sources = 0

\* C22 as stated: with a multi-source model that has no auxiliary source, the
\* run fails before any job has been put on the input queue.
C22_Original ==
    MultiSourceNoAux => (sidx = -1 /\ input_queue = <<>>)

\* C22, amended: with a multi-source model that has no auxiliary source,
\* every worker ends with status 1 while loading; the parent may put jobs on
\* the input queue meanwhile, but none is ever taken from it, no result is
\* published or returned, and a translate call with at least one segment ends
\* with every worker stopped and the parent exited with status 1.
C22_Amended ==
    /\ [](MultiSourceNoAux =>
            /\ \A w \in 1..num_processes :
                  /\ processes[w].st \in {"loading", "exited"}
                  /\ processes[w].job = NoJob
                  /\ processes[w].st = "exited" => processes[w].exitcode # 0
            /\ Len(input_queue) = sidx + 1
            /\ \A i \in 0..sidx : input_queue[i + 1].idx = i
            /\ output_queue = <<>>
            /\ translations = <<>>
            /\ cpc \in {"send", "retrieve", "raised", "exit1"})
    /\ (MultiSourceNoAux /\ Len(source_segments) >= 1)
          ~> (cpc = "exit1" /\ \A w \in 1..num_processes : ~IsAlive(processes[w]))

\* the parent has exited with status 1 while its jobs wait on the input queue
C22_Witness ==
    /\ MultiSourceNoAux
    /\ cpc = "exit1"
    /\ Len(input_queue) >= 2
    /\ \E w \in 1..num_processes : processes[w].exitcode = 1

\* the score r is the cost c divided by len to the power alpha (an infinite
\* cost stays infinite)
ScoreIs(r, c, len) ==
    /\ r.den > 0
    /\ IF c >= Inf THEN r.num >= Inf
       ELSE r.num * (len ^ translation_settings.normalization_alpha) = c * r.den
    /\ translation_settings.normalization_alpha = 0 => (r.num = c /\ r.den = 1)

\* C23: the score _translate reports for a hypothesis is the hypothesis'
\* final cost divided by its length to the power alpha, and the cost itself
\* when alpha is 0: for every hypothesis of the search with the n-best flag,
\* for the reported one without it.
C23_Normalized ==
    output_item # NoItem =>
        IF translation_settings.n_best
        THEN /\ Len(output_item.score) = Len(sample)
             /\ \A t \in 1..Len(sample) :
                   ScoreIs(output_item.score[t], sample_score[t], Len(sample[t]))
        ELSE \E t \in 1..Len(sample) :
                /\ output_item.samples = sample[t]
                /\ ScoreIs(output_item.score, sample_score[t], Len(sample[t]))

\* scores were reported with alpha = 2 for finished hypotheses of two lengths
\* and finite costs
C23_Witness ==
    /\ output_item # NoItem
    /\ translation_settings.n_best
    /\ translation_settings.normalization_alpha = 2
    /\ \E t, u \in 1..Len(sample) :
          /\ Len(sample[t]) = 1 /\ Last(sample[t]) = 0
          /\ Len(sample[u]) = 2 /\ Last(sample[u]) = 0
          /\ sample_score[t] > 0 /\ sample_score[t] < Inf
          /\ sample_score[u] > 0 /\ sample_score[u] < Inf
          /\ output_item.score[u] = [num |-> sample_score[u], den |-> 4]

\* C24: with the n-best flag, translate returns for the segment the list of
\* all hypotheses of its search, ranked by non-decreasing score, each with
\* the segment's sequence index as sentence id and its own hypothesis id.
C24_Original ==
    (translation_settings.n_best /\ cpc # "idle") =>
        /\ cpc = "returned"
        /\ Len(translations) = 1
        /\ Len(translations[1]) = Len(sample)
        /\ \A x \in 1..Len(translations[1]) :
              /\ translations[1][x].sentence_id = 0
              /\ translations[1][x].hypothesis_id \in 0..(Len(sample) - 1)
              /\ \A y \in 1..Len(translations[1]) :
                    /\ (x # y => translations[1][x].hypothesis_id
                                     # translations[1][y].hypothesis_id)
                    /\ (x < y => ~RatioLess(translations[1][y].score,
                                            translations[1][x].score))

\* translate has raised on an n-best item of two hypotheses
C24_Witness ==
    /\ translation_settings.n_best
    /\ cpc = "raised"
    /\ Len(output_item.samples) >= 2
    /\ translations = <<>>

\* the number of EOS tokens in a hypothesis
CountEos(hyp) == Cardinality({t \in 1..Len(hyp) : hyp[t] = 0})

\* the state model i returns after it was fed the start value and then the
\* tokens of hyp but the last
StateAfter(i, hyp) ==
    [m |-> i,
     h |-> IF hyp = <<>> THEN <<>> ELSE <<-1>> \o SubSeq(hyp, 1, Len(hyp) - 1)]

\* the probability model i gives the t-th token of hyp after the tokens
\* before it
PathProb(i, hyp, t) ==
    ModelProbs(f_next[i], voc_size, IF t = 1 THEN -1 ELSE hyp[t - 1],
               StateAfter(i, SubSeq(hyp, 1, t - 1)))[hyp[t]]

\* the cost of hyp under model i alone
PathCost(i, hyp) == SumCost([t \in 1..Len(hyp) |-> NegLog(PathProb(i, hyp, t))], Len(hyp))

\* hyp, with its cost and word probabilities, is a trajectory drawn from the
\* last model token by token
OwnTrajectory(hyp, cost, wps) ==
    /\ \A t \in 1..Len(hyp) : PathProb(NumModels, hyp, t) > 0
    /\ wps = [t \in 1..Len(hyp) |-> PathProb(NumModels, hyp, t)]
    /\ cost = PathCost(NumModels, hyp)

\* C25: in stochastic (non-argmax) mode with parameter k, gen_sample keeps
\* exactly k trajectories and prunes none: the live and the finished ones
\* number k at every step; each is a sequence of tokens drawn from its own
\* distribution with the cost of exactly those tokens; a trajectory is
\* finished at its own first EOS and at no other token, whatever the others
\* do; exactly k are returned, those without an EOS being maxlen long.
C25_Independent ==
    stochastic =>
        /\ pc \in {"loop", "dump"} =>
              /\ Len(sample) + live_k = k
              /\ Len(hyp_samples) = live_k
              /\ \A x \in 1..live_k :
                    /\ Len(hyp_samples[x]) = ii
                    /\ CountEos(hyp_samples[x]) = 0
                    /\ OwnTrajectory(hyp_samples[x], hyp_scores[x], word_probs[x])
        /\ pc = "loop" =>
              \A x \in 1..live_k :
                  /\ next_w[x] = IF ii = 0 THEN -1 ELSE Last(hyp_samples[x])
                  /\ \A i \in 1..NumModels :
                        next_state[i][x] = StateAfter(i, hyp_samples[x])
        /\ pc = "done" => Len(sample) = k
        /\ Len(sample_score) = Len(sample) /\ Len(sample_word_probs) = Len(sample)
        /\ \A x \in 1..Len(sample) :
              /\ Len(sample[x]) \in 1..maxlen
              /\ OwnTrajectory(sample[x], sample_score[x], sample_word_probs[x])
              /\ \/ Last(sample[x]) = 0 /\ CountEos(sample[x]) = 1
                 \/ pc = "done" /\ CountEos(sample[x]) = 0 /\ Len(sample[x]) = maxlen

\* three trajectories were returned: one ended at its first token, one later,
\* one was cut at maxlen
C25_Witness ==
    /\ stochastic
    /\ pc = "done"
    /\ k = 3
    /\ Len(sample) = 3
    /\ \E x, y, z \in 1..3 :
          /\ sample[x] = <<0>>
          /\ Len(sample[y]) > 1 /\ Last(sample[y]) = 0
          /\ CountEos(sample[z]) = 0 /\ Len(sample[z]) = maxlen

\* C26: for the same models, input and k (and numpy's same rule for equal
\* costs), beam search with alignment reporting returns the same token
\* sequences in the same order, with the same costs and word probabilities, as
\* beam search without it.
C26_AlignmentNeutral ==
    (run = 2 /\ pc = "done") =>
        /\ sample = first_sample
        /\ sample_score = first_score
        /\ sample_word_probs = first_word_probs

\* the second of the two searches, an ensemble's, reported alignments for
\* two hypotheses or more, the first had reported none
C26_Witness ==
    /\ run = 2
    /\ pc = "done"
    /\ return_alignment
    /\ NumModels = 2
    /\ Len(sample) >= 2
    /\ Len(alignments[1]) = Len(sample)
    /\ \E x \in 1..Len(sample) : Len(sample[x]) = 2 /\ Len(alignments[1][x]) = 2
    /\ first_sample = sample

\* the place in new_hyp_samples of the hypothesis that is the x-th of the
\* live beam after the step
PlaceOf(x) ==
    CHOOSE r \in 1..Len(new_hyp_samples') :
        /\ Last(new_hyp_samples'[r]) # 0
        /\ Cardinality({q \in 1..r : Last(new_hyp_samples'[q]) # 0}) = x

\* the same place, in the state after the step
PlaceOfNow(x) ==
    CHOOSE r \in 1..Len(new_hyp_samples) :
        /\ Last(new_hyp_samples[r]) # 0
        /\ Cardinality({q \in 1..r : Last(new_hyp_samples[q]) # 0}) = x

\* C27: the models' states are never mixed.  After a step that the search
\* goes on from, the state passed to model i for the hypothesis at position x
\* of the live beam is the state model i itself returned in this step for
\* that hypothesis' parent, and the token passed is the hypothesis' last.
C27_StatesSeparate ==
    [][(pc = "loop" /\ pc' = "loop" /\ run' = run) =>
          /\ Len(next_w') = live_k'
          /\ \A x \in 1..live_k' :
                LET r  == PlaceOf(x)
                    ti == (ranks_flat'[r] \div voc_size) + 1
                IN  /\ hyp_samples'[x] = new_hyp_samples'[r]
                    /\ hyp_samples'[x] = Append(hyp_samples[ti], ranks_flat'[r] % voc_size)
                    /\ next_w'[x] = Last(hyp_samples'[x])
                    /\ \A i \in 1..NumModels :
                          /\ Len(next_state'[i]) = live_k'
                          /\ next_state'[i][x] = ModelState(next_state[i][ti], next_w[ti])
                          /\ next_state'[i][x].m = i
                          /\ next_state'[i][x].h = <<-1>> \o hyp_samples[ti]]_vars

\* after its second step the search of an ensemble of two goes on with two
\* hypotheses that have different parents, the second parent's child first
C27_Witness ==
    /\ pc = "loop"
    /\ ii = 2
    /\ NumModels = 2
    /\ live_k >= 2
    /\ hyp_samples[1][1] # hyp_samples[2][1]
    /\ \E x, y \in 1..live_k :
          /\ x < y
          /\ (ranks_flat[PlaceOfNow(x)] \div voc_size) > (ranks_flat[PlaceOfNow(y)] \div voc_size)
    /\ \A x \in 1..live_k : \A i \in 1..2 :
          next_state[i][x] = [m |-> i, h |-> <<-1, hyp_samples[x][1]>>]

\* job is the job of the segment with sequence index i (from 0): it has the
\* request id of the call, the index i, and the segment's words as vectors of
\* options['factors'] ids followed by the all-zero vector
JobOfSegment(job, i) ==
    /\ job.request_id = TheRequest
    /\ job.idx = i
    /\ Len(job.seq) = Len(source_segments[i + 1]) + 1
    /\ \A t \in 1..Len(job.seq) : Len(job.seq[t]) = options.factors
    /\ Last(job.seq) = [j \in 1..options.factors |-> 0]
    /\ \A t \in 1..(Len(job.seq) - 1) : \A j \in 1..options.factors : job.seq[t][j] # 0

\* C28: for a batch of N >= 0 segments (every word with the configured
\* number of factors), job submission puts exactly N jobs on the input queue
\* in the order of the segments, each put appending the job of the next
\* segment, and ends by reporting N as the number of results to wait for.
C28_Original ==
    /\ [][(cpc = "send" /\ BadSegments = {} /\ input_queue' # input_queue
             /\ Len(input_queue') >= Len(input_queue)) =>
              /\ sidx' = sidx + 1
              /\ Len(input_queue') = Len(input_queue) + 1
              /\ SubSeq(input_queue', 1, Len(input_queue)) = input_queue
              /\ JobOfSegment(Last(input_queue'), sidx')]_vars
    /\ []((cpc # "send" /\ BadSegments = {}) =>
              /\ cpc # "raised"
              /\ sidx + 1 = Len(source_segments)
              /\ n_samples = Len(source_segments))

\* the jobs of three segments of two-factor words wait on the input queue in
\* the order of the segments and three results are waited for
C28_Witness ==
    /\ options.factors = 2
    /\ Len(source_segments) = 3
    /\ cpc = "retrieve"
    /\ n_samples = 3
    /\ Len(input_queue) = 3
    /\ \A i \in 0..2 : JobOfSegment(input_queue[i + 1], i)

\* how often the job of request r with sequence index i waits on the input
\* queue, is held by a worker at work, has its result on the output queue,
\* and has its result in the parent's buffer
TimesQueued(r, i) ==
    Cardinality({x \in 1..Len(input_queue) :
                    /\ input_queue[x] # Poison
                    /\ input_queue[x].request_id = r
                    /\ input_queue[x].idx = i})
TimesHeld(r, i) ==
    Cardinality({w \in 1..num_processes :
                    /\ processes[w].st = "busy"
                    /\ processes[w].job.request_id = r
                    /\ processes[w].job.idx = i})
TimesPublished(r, i) ==
    Cardinality({x \in 1..Len(output_queue) :
                    output_queue[x][1] = r /\ output_queue[x][2] = i})
TimesKept(r, i) ==
    IF r \in DOMAIN retrieved_translations /\ i \in DOMAIN retrieved_translations[r]
    THEN 1 ELSE 0
TimesAnywhere(r, i) ==
    TimesQueued(r, i) + TimesHeld(r, i) + TimesPublished(r, i) + TimesKept(r, i)

\* C29: a job leaves the input queue by going to exactly one worker; an item
\* is put on the output queue only by a worker that gives up the job it
\* holds, and it carries that job's request id and sequence index; at no
\* time is a job or its result in two places; while no worker has crashed
\* and the parent collects results, every job submitted is in exactly one
\* place; and a job a worker holds has its result published unless a worker
\* crashes.
C29_ExactlyOnce ==
    /\ [][(input_queue # <<>> /\ input_queue' = Tail(input_queue)
           /\ Head(input_queue) # Poison) =>
              \E w \in 1..num_processes :
                  /\ processes[w].st = "waiting"
                  /\ processes'[w].st = "busy"
                  /\ processes'[w].job = Head(input_queue)
                  /\ \A v \in (1..num_processes) \ {w} : processes'[v] = processes[v]]_vars
    /\ [][output_queue' # output_queue /\ Len(output_queue') >= Len(output_queue) =>
              /\ Len(output_queue') = Len(output_queue) + 1
              /\ SubSeq(output_queue', 1, Len(output_queue)) = output_queue
              /\ \E w \in 1..num_processes :
                    /\ processes[w].st = "busy"
                    /\ processes'[w].job = NoJob
                    /\ Last(output_queue')[1] = processes[w].job.request_id
                    /\ Last(output_queue')[2] = processes[w].job.idx
                    /\ Last(output_queue')[3] = TranslateItem(processes[w].job)
                    /\ \A v \in (1..num_processes) \ {w} : processes'[v] = processes[v]]_vars
    /\ [](\A r \in {TheRequest, OtherRequest} : \A i \in 0..(MaxSegs - 1) :
              /\ TimesAnywhere(r, i) <= 1
              /\ (r = TheRequest /\ i <= sidx /\ ~AnyCrashed /\ cpc \in {"send", "retrieve"})
                    => TimesAnywhere(r, i) = 1)
    /\ \A r \in {TheRequest, OtherRequest} : \A i \in 0..(MaxSegs - 1) :
            (TimesHeld(r, i) = 1) ~> (TimesPublished(r, i) = 1 \/ AnyCrashed)

\* two workers hold jobs of different requests while a result of each
\* request is on the output queue and a job still waits
C29_Witness ==
    /\ num_processes = 2
    /\ processes[1].st = "busy" /\ processes[2].st = "busy"
    /\ processes[1].job.request_id # processes[2].job.request_id
    /\ Len(output_queue) >= 1
    /\ input_queue # <<>>
    /\ ~AnyCrashed

\* the number of pieces of n items joined by a separator
JoinedLen(n) == IF n = 0 THEN 0 ELSE 2 * n - 1

\* the pieces from place a on are the n items of f joined by single spaces
SpaceJoined(text, a, f, n) ==
    /\ Len(text) >= a - 1 + JoinedLen(n)
    /\ \A x \in 1..n : text[a + 2 * x - 2] = f[x]
    /\ \A x \in 1..(n - 1) : text[a + 2 * x - 1] = Sep(" ")

\* the target words written for the best hypothesis: the words of its
\* tokens before the EOS
BestWords ==
    [x \in 1..Len(translations[1].target_words) |-> Word(WordOf(output_item.samples[x]))]

\* C30 as stated: in single-best mode the output for a segment is one line:
\* the space-joined target tokens, followed on the same line, after '|||',
\* by the word probabilities when they are requested.
C30_Original ==
    (cpc = "written" /\ ~translation_settings.n_best) =>
        LET n  == Len(translations[1].target_words)
            m  == Len(translations[1].target_probs)
            wl == JoinedLen(n)
        IN  /\ SpaceJoined(output_file, 1, BestWords, n)
            /\ Cardinality({x \in 1..Len(output_file) : output_file[x] = Sep("\n")}) = 1
            /\ Last(output_file) = Sep("\n")
            /\ translation_settings.get_word_probs =>
                  /\ output_file[wl + 1] = Sep(" ||| ")
                  /\ SpaceJoined(output_file, wl + 2,
                                 [x \in 1..m |-> Str(translations[1].target_probs[x])], m)

\* C30, amended: in single-best mode the output for a segment is the line of
\* the space-joined target tokens; when word probabilities are requested they
\* follow on a second line, space-joined, one per token of the hypothesis;
\* nothing else is written: no '|||' and no score.
C30_Amended ==
    (cpc = "written" /\ ~translation_settings.n_best) =>
        LET n  == Len(translations[1].target_words)
            m  == Len(translations[1].target_probs)
            wl == JoinedLen(n)
        IN  /\ SpaceJoined(output_file, 1, BestWords, n)
            /\ output_file[wl + 1] = Sep("\n")
            /\ m = Len(output_item.samples)
            /\ IF translation_settings.get_word_probs
               THEN /\ SpaceJoined(output_file, wl + 2,
                                   [x \in 1..m |-> Str(translations[1].target_probs[x])], m)
                    /\ Len(output_file) = wl + 1 + JoinedLen(m) + 1
                    /\ Last(output_file) = Sep("\n")
               ELSE Len(output_file) = wl + 1
            /\ \A x \in 1..Len(output_file) : output_file[x] # Sep(" ||| ")

\* a translation of three words was written with its word probabilities
C30_Witness ==
    /\ cpc = "written"
    /\ ~translation_settings.n_best
    /\ translation_settings.get_word_probs
    /\ Len(translations[1].target_words) = 3
    /\ Len(output_file) = 12

\* ---- C31
\* a cost that is not a finite number: inf or nan
NonFinite(c) == c >= Inf

\* C31 (as claimed): when a hypothesis of the beam has a cost that is not
\* finite, the run is aborted: no further search step is performed with that
\* cost, and it never becomes the score of the job's output item.
C31_Original ==
    /\ [][(pc = "loop" /\ \E h \in 1..live_k : NonFinite(hyp_scores[h])) => ii' = ii]_vars
    /\ [](output_item # NoItem => ~NonFinite(output_item.score.num))

\* a search went on with a cost that was nan, and _translate made that
\* hypothesis, which contains UNK, the output item of the job
C31_Witness ==
    /\ suppress_unk
    /\ output_item # NoItem
    /\ output_item.score.num >= NaN
    /\ Len(output_item.samples) = 2
    /\ output_item.samples[1] = 1

\* ---- C32
\* the parent (1-based) of the x-th hypothesis the last step made
ParentOf(x) == (ranks_flat[x] \div voc_size) + 1

\* the number of finished, and of live, hypotheses among the first x
\* hypotheses the last step made
FinishedUpTo(x) == Cardinality({y \in 1..x : IsFinished(new_hyp_samples[y])})
LiveUpTo(x) == Cardinality({y \in 1..x : ~IsFinished(new_hyp_samples[y])})

\* every hypothesis has, for every source, one alignment entry per token
OneEntryPerToken ==
    (return_alignment /\ pc \in {"loop", "dump", "done"}) =>
        \A s \in 1..Len(xs) :
            /\ Len(alignments[s]) = Len(sample)
            /\ \A x \in 1..Len(sample) : Len(alignments[s][x]) = Len(sample[x])
            /\ pc # "done" =>
                  /\ Len(hyp_alignment[s]) = live_k
                  /\ \A h \in 1..live_k : Len(hyp_alignment[s][h]) = Len(hyp_samples[h])

\* a step gives every hypothesis it makes, for every source, the history of
\* its parent followed by the mean of the models' attention weights for the
\* parent
ExtendsParent ==
    (return_alignment /\ pc = "loop" /\ ii' = ii + 1) =>
        \A s \in 1..Len(xs) : \A x \in 1..Len(new_hyp_samples') :
            LET mean == MeanAlignment([i \in 1..NumModels |-> StepAlphas(s, i, ParentOf(x)')])
                hist == Append(hyp_alignment[s][ParentOf(x)'], mean)
            IN  IF IsFinished(new_hyp_samples'[x])
                THEN alignments'[s][Len(alignments[s]) + FinishedUpTo(x)'] = hist
                ELSE hyp_alignment'[s][LiveUpTo(x)'] = hist

\* C32 (as claimed): with alignment reporting, under every multi-source
\* policy, init-decoder included, the search is not ended by an error of the
\* alignment bookkeeping, every hypothesis has for every source one alignment
\* entry per token, and a step extends the parent's history by the
\* model-averaged attention weights.
C32_Original ==
    /\ [](return_alignment => pc # "index_error")
    /\ []OneEntryPerToken
    /\ [][ExtendsParent]_vars

\* the same for the policies other than init-decoder
C32_OtherPolicies ==
    /\ []((return_alignment /\ ~init_decoder) => pc # "index_error")
    /\ [](~init_decoder => OneEntryPerToken)
    /\ [][~init_decoder => ExtendsParent]_vars

\* a search with the policy init-decoder and alignment reporting has ended
\* with the IndexError of line 1177 in its first step
C32_Witness ==
    /\ return_alignment
    /\ init_decoder
    /\ pc = "index_error"
    /\ ii = 0
    /\ sample = <<>>

\* ---- C33
\* C33: the contexts handed to a model's step are, under the policy
\* init-decoder, the context of the main source alone, and under every other
\* policy the contexts of all sources in the order of the sources, the main
\* source first; they are always the contexts that model's own init returned.
C33_StepContexts ==
    inps # NoStep =>
        \A i \in 1..Len(inps) :
            /\ \A c \in 1..Len(inps[i]) :
                    inps[i][c] = [source |-> c - 1, model |-> i]
            /\ Len(inps[i]) = IF init_decoder THEN 1 ELSE Len(xs)

\* an ensemble of two models has searched for two steps under init-decoder
\* with an auxiliary source
C33_Witness ==
    /\ init_decoder
    /\ Len(xs) = 2
    /\ Len(inps) = 2
    /\ pc = "done"
    /\ ii = 2

\* ---- C34
\* C34: whatever a step or the final dump does, every hypothesis already in
\* the finished set stays in it at its place with the same tokens, cost, word
\* probabilities and (with alignment reporting) alignment histories for every
\* source, and dead_k does not decrease.
C34_FinishedImmutable ==
    [][/\ Len(sample') >= Len(sample)
       /\ Len(sample_score') >= Len(sample_score)
       /\ Len(sample_word_probs') >= Len(sample_word_probs)
       /\ \A x \in 1..Len(sample) :
             /\ sample'[x] = sample[x]
             /\ sample_score'[x] = sample_score[x]
             /\ sample_word_probs'[x] = sample_word_probs[x]
             /\ return_alignment =>
                   \A s \in 1..Len(xs) : alignments'[s][x] = alignments[s][x]
       /\ dead_k' >= dead_k]_vars

\* a hypothesis finished in the first step; its sibling, which has the same
\* parent, was extended and finished in the second
C34_Witness ==
    /\ return_alignment
    /\ Len(xs) = 2
    /\ Len(sample) >= 2
    /\ sample[1] = <<0>>
    /\ Len(sample[2]) = 2
    /\ Len(alignments[2][1]) = 1
    /\ dead_k = 2

\* ---- C35
\* a <= b for two scores, as floats compare: no comparison with nan holds
ScoreLessEq(a, b) ==
    /\ a.num < NaN
    /\ b.num < NaN
    /\ a.num * b.den <= b.num * a.den

\* the output item is the hypothesis t of the search, with its own score,
\* word probabilities and alignments for every source
ItemIs(t) ==
    /\ output_item.samples = sample[t]
    /\ output_item.score = NormalizedScores[t]
    /\ output_item.word_probs = sample_word_probs[t]
    /\ Len(output_item.alignments) = Len(xs)
    /\ \A s \in 1..Len(xs) : output_item.alignments[s] = alignments[s][t]

\* some hypothesis of the search is the output item and no other hypothesis
\* has a lower score
BestReturned ==
    \E t \in 1..Len(sample) :
        /\ ItemIs(t)
        /\ \A u \in (1..Len(sample)) \ {t} :
              ScoreLessEq(NormalizedScores[t], NormalizedScores[u])

\* C35 (as claimed): in single-best mode the output item of a job is a
\* hypothesis of the search whose (normalized) score is minimal among all
\* hypotheses the search returned, together with the score, word
\* probabilities and alignments of that hypothesis.
C35_Original ==
    (output_item # NoItem /\ ~translation_settings.n_best) => BestReturned

\* the same when UNK is not suppressed
C35_Unsuppressed ==
    (output_item # NoItem /\ ~translation_settings.n_best /\ ~suppress_unk) => BestReturned

\* the search returned a hypothesis of finite score and one of score nan, and
\* the output item is the latter
C35_Witness ==
    /\ output_item # NoItem
    /\ ~translation_settings.n_best
    /\ output_item.score.num >= NaN
    /\ 1 \in {output_item.samples[x] : x \in 1..Len(output_item.samples)}
    /\ \E u \in 1..Len(sample) : ~NonFinite(sample_score[u])

\* ---- C36
\* the hypotheses of a search: the finished ones and, until they are dumped
\* into the finished list, the live ones
AllHypotheses == IF pc \in {"loop", "dump"} THEN sample \o hyp_samples ELSE sample

\* C36: at every point of a beam search no two hypotheses, live or finished,
\* have the same token sequence; so the returned list has no duplicate.
C36_Distinct ==
    (~stochastic /\ pc \in {"loop", "dump", "done"}) =>
        \A a, b \in 1..Len(AllHypotheses) :
            a # b => AllHypotheses[a] # AllHypotheses[b]

\* a search returned three hypotheses, two of them with the same first token
C36_Witness ==
    /\ pc = "done"
    /\ Len(sample) = 3
    /\ \E a, b \in 1..Len(sample) :
          /\ a # b
          /\ Len(sample[a]) = 2
          /\ Len(sample[b]) = 2
          /\ sample[a][1] = sample[b][1]

\* ---- C37
\* the hypothesis contains UNK (token 1)
HasUnk(hyp) == \E t \in 1..Len(hyp) : hyp[t] = 1

\* C37 (as claimed): with suppress_unk no hypothesis that beam search
\* returns contains UNK, whatever the beam width and the vocabulary size.
C37_Original ==
    (suppress_unk /\ pc = "done") => \A x \in 1..Len(sample) : ~HasUnk(sample[x])

\* the same for beams narrower than the vocabulary, at every point of the
\* search
C37_NarrowBeam ==
    (suppress_unk /\ k < voc_size) =>
        /\ \A x \in 1..Len(sample) : ~HasUnk(sample[x])
        /\ \A h \in 1..Len(hyp_samples) : ~HasUnk(hyp_samples[h])

\* a search with suppress_unk and a beam as wide as the vocabulary of three
\* tokens returned a hypothesis that contains UNK
C37_Witness ==
    /\ suppress_unk
    /\ pc = "done"
    /\ k = voc_size
    /\ k = 3
    /\ \E x \in 1..Len(sample) : HasUnk(sample[x])

\* ---- C38
\* a translate call is under way
InCall == cpc \in {"send", "retrieve"}

\* the call has returned its results, or has ended the process with status 1,
\* or has ended with an exception
CallEnded == cpc \in {"returned", "shutdown", "exit1", "raised"}

\* a None is on the input queue or a worker has left its loop on one
PoisonSeen == NumPoison > 0 \/ \E w \in 1..num_processes : ExitedOk(w)

\* C38 (as claimed): under fair scheduling every translate call ends: it
\* returns its results or the process is aborted, whichever way a worker has
\* stopped (crash in a job, failure while loading, or exit with status 0 on a
\* None).
C38_Original == InCall ~> CallEnded

\* the same for the calls during which no worker meets a None
C38_NonZeroExits == (InCall /\ ~PoisonSeen) ~> (CallEnded \/ PoisonSeen)

\* every worker has left its loop with status 0 on a None of an earlier
\* shutdown, the jobs of the call wait on the input queue, and the parent
\* polls the empty output queue: no step is possible any more
C38_Witness ==
    /\ cpc = "retrieve"
    /\ n_samples >= 1
    /\ NumRetrieved < n_samples
    /\ output_queue = <<>>
    /\ \A w \in 1..num_processes : ExitedOk(w)
    /\ Len(input_queue) = n_samples
    /\ NumPoison = 0
    /\ ~ENABLED StopNext
====
